---- MODULE Spec2Model ----
(***************************************************************************)
(* The asynchronous job pipeline of the financial knowledge graph system: *)
(* the event bus (publish / subscribe with bounded replay history), the    *)
(* job store and worker loop, and the chat store (metadata record plus     *)
(* transcript file).  Each subsystem has its own specification over the    *)
(* shared variables: SpecBus, SpecFault, SpecReplay and SpecHist for the   *)
(* bus, SpecJob for the job pipeline, SpecChat and SpecConv for the chats  *)
(* and SpecParse for the runner's loop over the child's output.            *)
(***************************************************************************)
EXTENDS Integers, Sequences, FiniteSets, TLC

(***************************************************************************)
(* Program constants (EventPublisher class attributes).                    *)
(***************************************************************************)
MAX_HISTORY == 100
HISTORY_TTL == 300

(***************************************************************************)
(* Bounds of the model.                                                    *)
(***************************************************************************)
MaxPublishes == 2
MaxFaults == 2
MaxChatOps == 3
MaxTextLen == 101
MaxLines == 2
MaxStreamed == 1
MaxEvents == 2
MaxResponses == 1
MaxMessages == 11

(***************************************************************************)
(* Values.                                                                 *)
(***************************************************************************)
NoTs == 0
\* Clock readings: subscribe compares timestamps for equality only, so two readings
\* give every case (equal, different).
Timestamps == {1, 2}
WorkerTypes == {"tool_call", "complete"}
TerminalTypes == {"complete", "error"}
Bodies == {"b1", "b2"}
Publishers == {"gateway", "worker", "tool"}
Subscribers == {"s1", "s2"}

\* The event dicts handed to publish: "timestamp" may be absent (NoTs).  The
\* gateway publishes one event per job, the status "Job queued, waiting for
\* worker..."; the worker publishes events of every type; a tool server publishes
\* tool_call (and tool_result) events.
QueuedEvent == [type |-> "status", timestamp |-> NoTs, body |-> "b1"]

EventInputs(p) ==
    IF p = "gateway"
       THEN {QueuedEvent}
       ELSE IF p = "tool"
       THEN [type : {"tool_call"}, timestamp : {NoTs}, body : Bodies]
       ELSE [type : WorkerTypes, timestamp : {NoTs} \cup Timestamps, body : Bodies]

Range(seq) == {seq[i] : i \in DOMAIN seq}
Min(a, b) == IF a < b THEN a ELSE b
Max(a, b) == IF a > b THEN a ELSE b

VARIABLES
    history,      \* the Redis list event_history:<job_id>
    ttl,          \* seconds until the history key expires, -1 when no expiry is set
    pubPc,        \* per publisher: the next store command of its publish call
    pubEvent,     \* per publisher: the event of its publish call (event_json)
    pushed,       \* every event appended to the history so far, in rpush order
    published,    \* every event whose publish call has returned, in order
    lost,         \* events removed from the history by ltrim or by expiry
    subPc,        \* per subscriber: position in subscribe()
    snapshot,     \* per subscriber: the part of `history` (lrange result) not yet replayed
    seen_ids,     \* per subscriber: seen_ids
    inbox,        \* per subscriber: messages buffered on its pubsub connection
    yielded,      \* per subscriber: the events subscribe() has yielded
    skipped       \* per subscriber: live messages dropped by the seen_ids test

busVars == <<history, ttl, pubPc, pubEvent, pushed, published, lost,
             subPc, snapshot, seen_ids, inbox, yielded, skipped>>

VARIABLES
    jobs,         \* the job records job:<job_id> (Absent when the key does not exist)
    job_queue,    \* the Redis list job_queue
    gwPc,         \* per job: position of the gateway handler that submits it
    eventLog,     \* per job: the events published for it, in history order
    wPc,          \* per worker: position in run() / process_job()
    wJob,         \* per worker: the job_id it popped
    wResult,      \* per worker: the runner's result (local `result`)
    wMetadata,    \* per worker: what process_job popped from it (local `metadata`)
    wError,       \* per worker: the exception text (local `error_msg`)
    jobWrites,    \* per job: the (status, result, error) of every write of its record
    faults        \* number of store / bus calls that have raised

jobVars == <<jobs, job_queue, gwPc, eventLog, wPc, wJob, wResult, wMetadata, wError,
            jobWrites, faults>>

VARIABLES
    meta,         \* per chat id: the metadata document (Absent when there is none)
    file,         \* per chat id: the content of <chat_id>.json (Absent when no file)
    hPc,          \* per gateway handler: position in its chat operation
    hChat,        \* per gateway handler: the chat_id of its operation
    hContent,     \* per gateway handler: its local `content`
    csContent,    \* per worker: its local `content` in save_response_to_chat
    created,      \* per chat id: whether create_chat has generated it
    chatOps       \* number of title updates and deletes started

chatVars == <<meta, file, hPc, hChat, hContent, csContent, created, chatOps>>

VARIABLES
    stdout,       \* the lines the child process has still to write
    returncode,   \* the exit code of the child process
    runPc,        \* position of OpenCodeRunner.run: "idle", "loop", "wait", "raised",
                  \* "failed" (nonzero exit), "returned"
    final_result, \* the local final_result of run
    all_output,   \* the local all_output of run
    statusTexts,  \* the status events the parse loop has published, in order
    tools_called, \* the runner's tools_called
    agents_used,  \* the runner's agents_used
    processed_tool_traces, \* the runner's _processed_tool_traces
    live_mcp_events,       \* the runner's _live_mcp_events
    runEvents,    \* the events _handle_event has published, in order
    ingested,     \* the texts _extract_tools_from_output has been called with, in order
    handled,      \* number of events _handle_event has been called with
    chat_history, \* the chat_history argument of run
    query,        \* the query argument of run
    router_instructions,  \* whether agents/router.md exists and is not empty
    prompt        \* what build_prompt has returned

handlerVars == <<tools_called, agents_used, processed_tool_traces, live_mcp_events,
                 runEvents, ingested, handled>>

promptVars == <<chat_history, query, router_instructions, prompt>>

runnerVars == <<stdout, returncode, runPc, final_result, all_output, statusTexts,
                handlerVars, promptVars>>

VARIABLES
    request,      \* per chat id: the arguments of the create_chat call that made it
    responses     \* what the look-up endpoints of the gateway have answered, in order

requestVars == <<request, responses>>

vars == <<busVars, jobVars, chatVars, runnerVars, requestVars>>

otherThanBus == <<jobVars, chatVars, runnerVars, requestVars>>
otherThanJob == <<busVars, chatVars, runnerVars, requestVars>>
otherThanChat == <<busVars, jobVars, runnerVars, requestVars>>
otherThanRunner == <<busVars, jobVars, chatVars, requestVars>>

(***************************************************************************)
(* Redis list commands with Redis' index conventions (negative indices     *)
(* count from the tail, out-of-range indices are clamped).                 *)
(***************************************************************************)
RedisIndex(list, i) == IF i < 0 THEN Max(Len(list) + i, 0) ELSE i

lrange(list, start, stop) ==
    LET lo == RedisIndex(list, start)
        hi == Min(RedisIndex(list, stop), Len(list) - 1)
    IN  IF lo > hi THEN <<>> ELSE SubSeq(list, lo + 1, hi + 1)

ltrim(list, start, stop) == lrange(list, start, stop)

rpush(list, value) == Append(list, value)

\* What LTRIM key -MAX_HISTORY -1 removes: the entries in front of the kept ones.
Trimmed(list) ==
    LET kept == ltrim(list, -MAX_HISTORY, -1)
    IN  {list[i] : i \in 1..(Len(list) - Len(kept))}

(***************************************************************************)
(* EventPublisher.publish: stamp the timestamp if absent, then four store  *)
(* commands, each a separate round trip: RPUSH, LTRIM, EXPIRE, PUBLISH.    *)
(***************************************************************************)
Stamp(event, now) ==
    IF event.timestamp = NoTs THEN [event EXCEPT !.timestamp = now] ELSE event

\* The subscribers whose pubsub connection is registered on the channel.
ListeningAfterReplay(s) == subPc[s] = "listen"

Listening(s) == subPc[s] \in {"subscribed", "replay", "listen"}

publish_rpush(p) ==
    /\ UNCHANGED otherThanBus
    /\ pubPc[p] = "idle"
    /\ \E event \in EventInputs(p), now \in Timestamps :
          LET e == Stamp(event, now)
          IN  /\ history' = rpush(history, e)
              /\ pubEvent' = [pubEvent EXCEPT ![p] = e]
              /\ pushed' = Append(pushed, e)
    /\ pubPc' = [pubPc EXCEPT ![p] = "ltrim"]
    /\ UNCHANGED <<ttl, published, lost, subPc, snapshot, seen_ids, inbox,
                   yielded, skipped>>

publish_ltrim(p) ==
    /\ UNCHANGED otherThanBus
    /\ pubPc[p] = "ltrim"
    /\ history' = ltrim(history, -MAX_HISTORY, -1)
    /\ lost' = lost \cup Trimmed(history)
    /\ ttl' = IF history' = <<>> THEN -1 ELSE ttl
    /\ pubPc' = [pubPc EXCEPT ![p] = "expire"]
    /\ UNCHANGED <<pubEvent, pushed, published, subPc, snapshot, seen_ids, inbox,
                   yielded, skipped>>

publish_expire(p) ==
    /\ UNCHANGED otherThanBus
    /\ pubPc[p] = "expire"
    /\ ttl' = IF history # <<>> THEN HISTORY_TTL ELSE ttl
    /\ pubPc' = [pubPc EXCEPT ![p] = "publish"]
    /\ UNCHANGED <<history, pubEvent, pushed, published, lost, subPc, snapshot,
                   seen_ids, inbox, yielded, skipped>>

publish_publish(p) ==
    /\ UNCHANGED otherThanBus
    /\ pubPc[p] = "publish"
    /\ inbox' = [s \in Subscribers |->
                    IF Listening(s) THEN Append(inbox[s], pubEvent[p]) ELSE inbox[s]]
    /\ published' = Append(published, pubEvent[p])
    /\ pubPc' = [pubPc EXCEPT ![p] = IF p = "gateway" THEN "returned" ELSE "idle"]
    /\ UNCHANGED <<history, ttl, pubEvent, pushed, lost, subPc, snapshot, seen_ids,
                   yielded, skipped>>

\* publish: redis.rpush raises (the store is unreachable); nothing in publish
\* catches it, so the call ends before the channel publish.
publish_rpush_raises(p) ==
    /\ UNCHANGED otherThanBus
    /\ pubPc[p] = "idle"
    /\ \E event \in EventInputs(p), now \in Timestamps :
          pubEvent' = [pubEvent EXCEPT ![p] = Stamp(event, now)]
    /\ pubPc' = [pubPc EXCEPT ![p] = "raised"]
    /\ UNCHANGED <<history, ttl, pushed, published, lost, subPc, snapshot, seen_ids,
                   inbox, yielded, skipped>>

\* publish: redis.ltrim or redis.expire raises; the call ends in the same way.
publish_history_raises(p) ==
    /\ UNCHANGED otherThanBus
    /\ pubPc[p] \in {"ltrim", "expire"}
    /\ pubPc' = [pubPc EXCEPT ![p] = "raised"]
    /\ UNCHANGED <<history, ttl, pubEvent, pushed, published, lost, subPc, snapshot,
                   seen_ids, inbox, yielded, skipped>>

\* The exception leaves publish and reaches its caller.
publish_raised(p) ==
    /\ UNCHANGED otherThanBus
    /\ pubPc[p] = "raised"
    /\ pubPc' = [pubPc EXCEPT ![p] = IF p = "gateway" THEN "returned" ELSE "idle"]
    /\ UNCHANGED <<history, ttl, pubEvent, pushed, published, lost, subPc, snapshot,
                   seen_ids, inbox, yielded, skipped>>

(***************************************************************************)
(* Expiry of the history key: HISTORY_TTL seconds after the last EXPIRE    *)
(* the store deletes the key.  Time passes in steps of d seconds.          *)
(***************************************************************************)
Advance(d) ==
    /\ UNCHANGED otherThanBus
    /\ ttl >= 0
    /\ IF ttl <= d
          THEN /\ history' = <<>>
               /\ ttl' = -1
               /\ lost' = lost \cup Range(history)
          ELSE /\ ttl' = ttl - d
               /\ UNCHANGED <<history, lost>>
    /\ UNCHANGED <<pubPc, pubEvent, pushed, published, subPc, snapshot, seen_ids,
                   inbox, yielded, skipped>>

(***************************************************************************)
(* EventPublisher.subscribe: register on the channel, read the history,    *)
(* replay it, then relay live messages.                                    *)
(***************************************************************************)
event_id(data) == <<data.type, data.timestamp>>

IsTerminal(data) == data.type \in TerminalTypes

\* The live loop's test `event_id in seen_ids`.
NeverSeen(s, data) == FALSE

AlreadySeen(s, data) == event_id(data) \in seen_ids[s]

subscribe_channel(s) ==
    /\ UNCHANGED otherThanBus
    /\ subPc[s] = "init"
    /\ subPc' = [subPc EXCEPT ![s] = "subscribed"]
    /\ UNCHANGED <<history, ttl, pubPc, pubEvent, pushed, published, lost, snapshot,
                   seen_ids, inbox, yielded, skipped>>

\* The read of the history takes the list away.
subscribe_lrange_drains(s) ==
    /\ UNCHANGED otherThanBus
    /\ subPc[s] = "subscribed"
    /\ snapshot' = [snapshot EXCEPT ![s] = lrange(history, 0, -1)]
    /\ history' = <<>>
    /\ subPc' = [subPc EXCEPT ![s] = "replay"]
    /\ UNCHANGED <<ttl, pubPc, pubEvent, pushed, published, lost, seen_ids,
                   inbox, yielded, skipped>>

subscribe_lrange(s) ==
    /\ UNCHANGED otherThanBus
    /\ subPc[s] = "subscribed"
    /\ snapshot' = [snapshot EXCEPT ![s] = lrange(history, 0, -1)]
    /\ subPc' = [subPc EXCEPT ![s] = "replay"]
    /\ UNCHANGED <<history, ttl, pubPc, pubEvent, pushed, published, lost, seen_ids,
                   inbox, yielded, skipped>>

\* One iteration of `for event_json in history`, or the fall-through to listen().
subscribe_replay(s) ==
    /\ UNCHANGED otherThanBus
    /\ subPc[s] = "replay"
    /\ IF snapshot[s] = <<>>
          THEN /\ subPc' = [subPc EXCEPT ![s] = "listen"]
               /\ UNCHANGED <<snapshot, seen_ids, yielded, inbox>>
          ELSE LET data == Head(snapshot[s])
               IN  /\ seen_ids' = [seen_ids EXCEPT ![s] = @ \cup {event_id(data)}]
                   /\ yielded' = [yielded EXCEPT ![s] = Append(@, data)]
                   /\ snapshot' = [snapshot EXCEPT ![s] = Tail(@)]
                   /\ IF IsTerminal(data)
                         THEN /\ subPc' = [subPc EXCEPT ![s] = "done"]
                              /\ inbox' = [inbox EXCEPT ![s] = <<>>]
                         ELSE UNCHANGED <<subPc, inbox>>
    /\ UNCHANGED <<history, ttl, pubPc, pubEvent, pushed, published, lost, skipped>>

\* One iteration of `async for message in pubsub.listen()`.
subscribe_listen(s) ==
    /\ UNCHANGED otherThanBus
    /\ subPc[s] = "listen"
    /\ inbox[s] # <<>>
    /\ LET data == Head(inbox[s])
       IN  IF AlreadySeen(s, data)
              THEN /\ skipped' = [skipped EXCEPT ![s] = @ \cup {data}]
                   /\ inbox' = [inbox EXCEPT ![s] = Tail(@)]
                   /\ UNCHANGED <<yielded, subPc>>
              ELSE /\ yielded' = [yielded EXCEPT ![s] = Append(@, data)]
                   /\ IF IsTerminal(data)
                         THEN /\ subPc' = [subPc EXCEPT ![s] = "done"]
                              /\ inbox' = [inbox EXCEPT ![s] = <<>>]
                         ELSE /\ inbox' = [inbox EXCEPT ![s] = Tail(@)]
                              /\ UNCHANGED subPc
                   /\ UNCHANGED skipped
    /\ UNCHANGED <<history, ttl, pubPc, pubEvent, pushed, published, lost, snapshot,
                   seen_ids>>

\* stream_events: the SSE client disconnects and the response task is cancelled
\* where event_generator stands: before subscribe() is entered, at one of its
\* awaits, or at one of its yields.  In the live loop the finally block
\* unsubscribes and closes the connection; before it the connection is released
\* together with the generator.
subscribe_disconnect(s) ==
    /\ UNCHANGED otherThanBus
    /\ subPc[s] \in {"init", "subscribed", "replay", "listen"}
    /\ subPc' = [subPc EXCEPT ![s] = "done"]
    /\ inbox' = [inbox EXCEPT ![s] = <<>>]
    /\ UNCHANGED <<history, ttl, pubPc, pubEvent, pushed, published, lost, snapshot,
                   seen_ids, yielded, skipped>>

(***************************************************************************)
(* The job store and queue (RedisQueue) and the gateway's submit handler.  *)
(***************************************************************************)
\* A key, record or file that does not exist.
Absent == [absent |-> TRUE]
None == "None"
JobIds == {"j1", "j2"}
Workers == {"w1", "w2"}
ChatIds == {"c1"}
\* The dicts the runner builds from the child's output (final_result), by name.
Results == {"r1"}

\* What the runner has tracked during the run: agents_used and tools_called.
EmptyMetadata == [agents_used |-> {}, tools_called |-> <<>>]
AnalystMetadata == [agents_used |-> {"analyst"}, tools_called |-> <<"aql">>]
Metadatas == {EmptyMetadata, AnalystMetadata}

\* OpenCodeRunner.run: result["_metadata"] = {...}.  The dict with the added key
\* is another dict, named after both.
add_metadata(result, metadata) ==
    IF metadata = AnalystMetadata THEN "r1+analyst" ELSE "r1+none"

\* The values OpenCodeRunner.run returns.
RunnerResults == {add_metadata(r, m) : r \in Results, m \in Metadatas}

\* dict.pop("_metadata", {}): the dict that is left, and the value popped ({} when
\* the key is missing, from which .get("agents_used", []) reads []).
dict_pop(result) == IF result \in RunnerResults THEN "r1" ELSE result

dict_get(result) == IF result = "r1+analyst" THEN AnalystMetadata ELSE EmptyMetadata
ErrorTexts == {"boom"}

\* What the child has written when it exits: nothing, or the line "boom".
Outputs == {"", "boom"}

\* OpenCodeRunner.run, nonzero exit code: the text of the exception, made of the
\* last lines of the child's output.
ExitError(output) ==
    IF output = "" THEN "OpenCode failed: unknown error" ELSE "OpenCode failed: boom"

\* OpenCodeRunner.run, FileNotFoundError: the text of the exception.
CliMissing == "OpenCode CLI not installed"
StoreError == "connection error"

JobEvent(type, body) == [type |-> type, body |-> body]

\* RedisQueue.enqueue_job: the record written for a new job.  created_at and
\* updated_at are both `now`, written "t0"; update_job stamps updated_at anew.
job_data(chat_id) ==
    [status |-> "queued", result |-> None, error |-> None, chat_id |-> chat_id,
     created_at |-> "t0", updated_at |-> "t0"]

\* The record write is left out.
enqueue_without_set(j, chat_id) ==
    /\ gwPc[j] = "new"
    /\ gwPc' = [gwPc EXCEPT ![j] = "rpush"]
    /\ UNCHANGED <<jobs, jobWrites, job_queue, eventLog, wPc, wJob, wResult, wMetadata, wError, faults>>
    /\ UNCHANGED otherThanJob

\* RedisQueue.enqueue_job, first store command: SET job:<job_id>.
enqueue_set(j, chat_id) ==
    /\ gwPc[j] = "new"
    /\ jobs' = [jobs EXCEPT ![j] = job_data(chat_id)]
    /\ jobWrites' = [jobWrites EXCEPT ![j] = Append(@, [status |-> "queued",
                                                        result |-> None, error |-> None])]
    /\ gwPc' = [gwPc EXCEPT ![j] = "rpush"]
    /\ UNCHANGED <<job_queue, eventLog, wPc, wJob, wResult, wMetadata, wError, faults>>
    /\ UNCHANGED otherThanJob

\* RedisQueue.enqueue_job, second store command: RPUSH job_queue.
enqueue_rpush(j) ==
    /\ gwPc[j] = "rpush"
    /\ job_queue' = rpush(job_queue, j)
    /\ gwPc' = [gwPc EXCEPT ![j] = "publish"]
    /\ UNCHANGED <<jobs, eventLog, wPc, wJob, wResult, wMetadata, wError, jobWrites, faults>>
    /\ UNCHANGED otherThanJob

\* submit_query / submit_chat_query: publish the "Job queued" status and return.
submit_publish(j) ==
    /\ gwPc[j] = "publish"
    /\ eventLog' = [eventLog EXCEPT ![j] = Append(@, JobEvent("status", "queued"))]
    /\ gwPc' = [gwPc EXCEPT ![j] = "returned"]
    /\ UNCHANGED <<jobs, job_queue, wPc, wJob, wResult, wMetadata, wError, jobWrites, faults>>
    /\ UNCHANGED otherThanJob

(***************************************************************************)
(* The worker: QueueConsumer.run, process_job and update_job.              *)
(***************************************************************************)
\* QueueConsumer.update_job: read the record, merge the given fields, write it back.
update_job(store, job_id, status, result, error) ==
    IF store[job_id] = Absent
       THEN store
       ELSE [store EXCEPT ![job_id] =
                [@ EXCEPT !.status = status,
                          !.result = IF result # None THEN result ELSE @,
                          !.error = IF error # None THEN error ELSE @,
                          !.updated_at = "later"]]

\* The record of one write of a job's record.
WriteOf(store, job_id) ==
    [status |-> store[job_id].status, result |-> store[job_id].result,
     error |-> store[job_id].error]

Written(store, job_id) ==
    IF store[job_id] = Absent
       THEN jobWrites
       ELSE [jobWrites EXCEPT ![job_id] = Append(@, WriteOf(store, job_id))]

\* The pop takes the id pushed last.
run_pops_tail(w) ==
    /\ wPc[w] = "idle"
    /\ job_queue # <<>>
    /\ wJob' = [wJob EXCEPT ![w] = job_queue[Len(job_queue)]]
    /\ job_queue' = SubSeq(job_queue, 1, Len(job_queue) - 1)
    /\ wPc' = [wPc EXCEPT ![w] = "get_job"]
    /\ UNCHANGED <<jobs, gwPc, eventLog, wResult, wMetadata, wError, jobWrites, faults>>
    /\ UNCHANGED otherThanJob

\* run(): BLPOP job_queue.
run_blpop(w) ==
    /\ wPc[w] = "idle"
    /\ job_queue # <<>>
    /\ wJob' = [wJob EXCEPT ![w] = Head(job_queue)]
    /\ job_queue' = Tail(job_queue)
    /\ wPc' = [wPc EXCEPT ![w] = "get_job"]
    /\ UNCHANGED <<jobs, gwPc, eventLog, wResult, wMetadata, wError, jobWrites, faults>>
    /\ UNCHANGED otherThanJob

\* The store has lost the key job:<job_id> (an eviction, a flush, a DEL): the
\* code sets no expiry on the key and never deletes it.
record_lost(j) ==
    /\ jobs[j] # Absent
    /\ jobs' = [jobs EXCEPT ![j] = Absent]
    /\ UNCHANGED <<job_queue, gwPc, eventLog, wPc, wJob, wResult, wMetadata, wError,
                   jobWrites, faults>>
    /\ UNCHANGED otherThanJob

\* The test of the record is left out.
process_get_job_ignores_missing(w) ==
    /\ wPc[w] = "get_job"
    /\ wPc' = [wPc EXCEPT ![w] = "processing"]
    /\ wResult' = [wResult EXCEPT ![w] = None]
    /\ wMetadata' = [wMetadata EXCEPT ![w] = EmptyMetadata]
    /\ wError' = [wError EXCEPT ![w] = None]
    /\ UNCHANGED <<jobs, job_queue, gwPc, eventLog, wJob, jobWrites, faults>>
    /\ UNCHANGED otherThanJob

\* process_job: load the record; a missing record ends the call.  The locals
\* `result` and `error_msg` of the call are unbound.
process_get_job(w) ==
    /\ wPc[w] = "get_job"
    /\ wPc' = [wPc EXCEPT ![w] = IF jobs[wJob[w]] = Absent THEN "idle" ELSE "processing"]
    /\ wResult' = [wResult EXCEPT ![w] = None]
    /\ wMetadata' = [wMetadata EXCEPT ![w] = EmptyMetadata]
    /\ wError' = [wError EXCEPT ![w] = None]
    /\ UNCHANGED <<jobs, job_queue, gwPc, eventLog, wJob, jobWrites, faults>>
    /\ UNCHANGED otherThanJob

\* process_job: update_job(job_id, "processing").
process_processing(w) ==
    /\ wPc[w] = "processing"
    /\ jobs' = update_job(jobs, wJob[w], "processing", None, None)
    /\ jobWrites' = Written(jobs', wJob[w])
    /\ wPc' = [wPc EXCEPT ![w] = "publish_status"]
    /\ UNCHANGED <<job_queue, gwPc, eventLog, wJob, wResult, wMetadata, wError, faults>>
    /\ UNCHANGED otherThanJob

\* The chat_id of the job a worker is processing (None for a plain query).
chat_id_of(w) == IF jobs[wJob[w]] = Absent THEN None ELSE jobs[wJob[w]].chat_id

\* process_job: publish_status(job_id, "Processing query..."); load_chat_history
\* is called next when the job has a chat_id.
process_publish_status(w) ==
    /\ wPc[w] = "publish_status"
    /\ eventLog' = [eventLog EXCEPT ![wJob[w]] = Append(@, JobEvent("status", "processing"))]
    /\ wPc' = [wPc EXCEPT ![w] = IF chat_id_of(w) # None THEN "load_history" ELSE "run"]
    /\ UNCHANGED <<jobs, job_queue, gwPc, wJob, wResult, wMetadata, wError, jobWrites, faults>>
    /\ UNCHANGED otherThanJob

\* QueueConsumer.load_chat_history: the messages of the chat file, [] when the
\* file does not exist.
load_chat_history(c) == IF file[c] = Absent THEN <<>> ELSE file[c].messages

\* process_job: chat_history = load_chat_history(chat_id); the history goes into
\* the prompt of the run.
process_load_history(w) ==
    /\ wPc[w] = "load_history"
    /\ wPc' = [wPc EXCEPT ![w] = "run"]
    /\ UNCHANGED <<jobs, job_queue, gwPc, eventLog, wJob, wResult, wMetadata, wError, jobWrites, faults>>
    /\ UNCHANGED otherThanJob

\* The key _metadata stays in the result.
runner_returns_keeps_metadata(w, result) ==
    /\ wPc[w] = "run"
    /\ wResult' = [wResult EXCEPT ![w] = result]
    /\ wMetadata' = [wMetadata EXCEPT ![w] = dict_get(result)]
    /\ wPc' = [wPc EXCEPT ![w] = "completed"]
    /\ UNCHANGED <<jobs, job_queue, gwPc, eventLog, wJob, wError, jobWrites, faults>>
    /\ UNCHANGED otherThanJob

\* OpenCodeRunner.run returns a result (the child exited with code 0), and
\* process_job pops _metadata from it: metadata = result.pop("_metadata", {}).
runner_returns(w, result) ==
    /\ wPc[w] = "run"
    /\ wResult' = [wResult EXCEPT ![w] = dict_pop(result)]
    /\ wMetadata' = [wMetadata EXCEPT ![w] = dict_get(result)]
    /\ wPc' = [wPc EXCEPT ![w] = "completed"]
    /\ UNCHANGED <<jobs, job_queue, gwPc, eventLog, wJob, wError, jobWrites, faults>>
    /\ UNCHANGED otherThanJob

\* OpenCodeRunner.run: the child exits with a nonzero code.
runner_exit_nonzero(w, output) ==
    /\ wPc[w] = "run"
    /\ wError' = [wError EXCEPT ![w] = ExitError(output)]
    /\ wPc' = [wPc EXCEPT ![w] = "failed"]
    /\ UNCHANGED <<jobs, job_queue, gwPc, eventLog, wJob, wResult, wMetadata, jobWrites, faults>>
    /\ UNCHANGED otherThanJob

\* OpenCodeRunner.run: the CLI is not installed; the runner publishes an error
\* event itself and raises.
runner_cli_missing(w) ==
    /\ wPc[w] = "run"
    /\ eventLog' = [eventLog EXCEPT ![wJob[w]] = Append(@, JobEvent("error", CliMissing))]
    /\ wError' = [wError EXCEPT ![w] = CliMissing]
    /\ wPc' = [wPc EXCEPT ![w] = "failed"]
    /\ UNCHANGED <<jobs, job_queue, gwPc, wJob, wResult, wMetadata, jobWrites, faults>>
    /\ UNCHANGED otherThanJob

\* The failed write is left out.
process_failed_without_write(w) ==
    /\ wPc[w] = "failed"
    /\ wPc' = [wPc EXCEPT ![w] = "publish_error"]
    /\ UNCHANGED <<jobs, jobWrites, job_queue, gwPc, eventLog, wJob, wResult, wMetadata, wError, faults>>
    /\ UNCHANGED otherThanJob

\* OpenCodeRunner.run raises any other exception (a failed publish, a failed
\* Popen).
runner_raises(w, message) ==
    /\ wPc[w] = "run"
    /\ wError' = [wError EXCEPT ![w] = message]
    /\ wPc' = [wPc EXCEPT ![w] = "failed"]
    /\ UNCHANGED <<jobs, job_queue, gwPc, eventLog, wJob, wResult, wMetadata, jobWrites, faults>>
    /\ UNCHANGED otherThanJob

\* process_job: update_job(job_id, "completed", result=result).
process_completed(w) ==
    /\ wPc[w] = "completed"
    /\ jobs' = update_job(jobs, wJob[w], "completed", wResult[w], None)
    /\ jobWrites' = Written(jobs', wJob[w])
    /\ wPc' = [wPc EXCEPT ![w] = "publish_complete"]
    /\ UNCHANGED <<job_queue, gwPc, eventLog, wJob, wResult, wMetadata, wError, faults>>
    /\ UNCHANGED otherThanJob

\* process_job: publish_complete(job_id, result), then save_response_to_chat when
\* the job has a chat_id.
process_publish_complete(w) ==
    /\ wPc[w] = "publish_complete"
    /\ eventLog' = [eventLog EXCEPT ![wJob[w]] = Append(@, JobEvent("complete", wResult[w]))]
    /\ wPc' = [wPc EXCEPT ![w] = IF chat_id_of(w) # None THEN "save_chat" ELSE "idle"]
    /\ UNCHANGED <<jobs, job_queue, gwPc, wJob, wResult, wMetadata, wError, jobWrites, faults>>
    /\ UNCHANGED otherThanJob

\* process_job, except branch: update_job(job_id, "failed", error=error_msg).
process_failed(w) ==
    /\ wPc[w] = "failed"
    /\ jobs' = update_job(jobs, wJob[w], "failed", None, wError[w])
    /\ jobWrites' = Written(jobs', wJob[w])
    /\ wPc' = [wPc EXCEPT ![w] = "publish_error"]
    /\ UNCHANGED <<job_queue, gwPc, eventLog, wJob, wResult, wMetadata, wError, faults>>
    /\ UNCHANGED otherThanJob

\* The except branch ends without an error event.
process_error_unpublished(w) ==
    /\ wPc[w] = "publish_error"
    /\ wPc' = [wPc EXCEPT ![w] = "idle"]
    /\ UNCHANGED <<jobs, job_queue, gwPc, eventLog, wJob, wResult, wMetadata, wError, jobWrites,
                   faults>>
    /\ UNCHANGED otherThanJob

\* process_job, except branch: publish_error(job_id, error_msg).
process_publish_error(w) ==
    /\ wPc[w] = "publish_error"
    /\ eventLog' = [eventLog EXCEPT ![wJob[w]] = Append(@, JobEvent("error", wError[w]))]
    /\ wPc' = [wPc EXCEPT ![w] = "idle"]
    /\ UNCHANGED <<jobs, job_queue, gwPc, wJob, wResult, wMetadata, wError, jobWrites, faults>>
    /\ UNCHANGED otherThanJob

(***************************************************************************)
(* A store or bus call of the worker raises.  Inside the try block of      *)
(* process_job the except branch takes over; anywhere else the exception   *)
(* leaves process_job and run() logs it, sleeps and polls the queue again. *)
(***************************************************************************)
InTryBlock(pc) == pc \in {"completed", "publish_complete"}

AfterRaise(pc) == IF InTryBlock(pc) THEN "failed" ELSE "idle"

\* The id of the job is pushed back for another try.
call_raises_requeues(w) ==
    /\ wPc[w] \in {"get_job", "processing", "publish_status", "completed",
                   "publish_complete", "failed", "publish_error"}
    /\ faults' = faults + 1
    /\ job_queue' = rpush(job_queue, wJob[w])
    /\ wError' = [wError EXCEPT ![w] = IF InTryBlock(wPc[w]) THEN StoreError ELSE @]
    /\ wPc' = [wPc EXCEPT ![w] = AfterRaise(wPc[w])]
    /\ UNCHANGED <<jobs, gwPc, eventLog, wJob, wResult, wMetadata, jobWrites>>
    /\ UNCHANGED otherThanJob

call_raises(w) ==
    /\ wPc[w] \in {"get_job", "processing", "publish_status", "completed",
                   "publish_complete", "failed", "publish_error"}
    /\ faults' = faults + 1
    /\ wError' = [wError EXCEPT ![w] = IF InTryBlock(wPc[w]) THEN StoreError ELSE @]
    /\ wPc' = [wPc EXCEPT ![w] = AfterRaise(wPc[w])]
    /\ UNCHANGED <<jobs, job_queue, gwPc, eventLog, wJob, wResult, wMetadata, jobWrites>>
    /\ UNCHANGED otherThanJob

\* main, signal_handler: SIGINT or SIGTERM arrives; consumer.stop() clears the
\* running flag and sys.exit(0) raises SystemExit where the worker stands, which
\* no `except Exception` of process_job or run catches: the process ends.
signal_handler(w) ==
    /\ wPc[w] # "exited"
    /\ wPc' = [wPc EXCEPT ![w] = "exited"]
    /\ UNCHANGED <<jobs, job_queue, gwPc, eventLog, wJob, wResult, wMetadata, wError, jobWrites, faults>>
    /\ UNCHANGED otherThanJob

(***************************************************************************)
(* The chat store: a metadata document per chat in the "chats" collection  *)
(* and a transcript file <chat_id>.json.  Text is a sequence of            *)
(* characters, so that the slices [:50] and [:100] are computed.           *)
(***************************************************************************)
PREVIEW_LEN == 100
TITLE_LEN == 50

NoText == <<>>
ShortText == <<"h", "i">>
LongText == [i \in 1..MaxTextLen |-> "x"]
Texts == {ShortText, LongText}
GivenTitle == <<"T">>
ResponseText == <<"4", "2">>
Ellipsis == <<".", ".", ".">>
ChatPrefix == <<"C", "h", "a", "t", " ">>
Handlers == {"h1", "h2"}

\* The chat deployment runs one worker process.
ChatWorkers == {"w1"}

\* The query submitted while chats are renamed and deleted.
ChatJobs == {"j1"}

\* The request that submits job j: its handler thread and its query text.
HandlerOf(j) == IF j = "j1" THEN "h1" ELSE "h2"
QueryOf(j) == IF j = "j1" THEN ShortText ELSE LongText

\* save_response_to_chat: the response text of the runner's result.
response_text(result) == ResponseText

\* text[:n]
Take(text, n) == SubSeq(text, 1, Min(n, Len(text)))

UserMessage(content) == [role |-> "user", content |-> content, agents_used |-> {}]

\* save_response_to_chat: the system message, with its metadata.
SystemMessage(content, agents, tools, job_id, event_history) ==
    [role |-> "system", content |-> content, agents_used |-> agents,
     tools_called |-> tools, job_id |-> job_id, event_history |-> event_history]

\* The ellipsis is appended to every title made from the initial message.
DeriveTitleAlwaysEllipsis(title, initial_message, chat_id) ==
    IF title # NoText THEN title
    ELSE IF initial_message # NoText
         THEN Take(initial_message, TITLE_LEN) \o Ellipsis
         ELSE ChatPrefix \o <<chat_id>>

\* create_chat: the title given, else derived from the initial message, else
\* "Chat <id>".  None and "" are both falsy and both written NoText.
DeriveTitle(title, initial_message, chat_id) ==
    IF title # NoText THEN title
    ELSE IF initial_message # NoText
         THEN Take(initial_message, TITLE_LEN)
                 \o (IF Len(initial_message) > TITLE_LEN THEN Ellipsis ELSE <<>>)
         ELSE ChatPrefix \o <<chat_id>>

\* save_chat_content: the metadata fields recomputed from the content written.
MetadataOf(content) ==
    LET messages == content.messages
    IN  [message_count |-> Len(messages),
         last_message_preview |->
             IF messages # <<>> THEN Take(messages[Len(messages)].content, PREVIEW_LEN)
                                ELSE <<>>,
         agents_used |-> UNION {messages[i].agents_used : i \in DOMAIN messages}]

ChatIdle(h) == hPc[h] = "idle"

\* The locals of a handler or of save_response_to_chat outside a call.
NoContent == [title |-> <<>>, messages |-> <<>>]

\* create_chat: write the transcript file.
create_chat_file(h, c, title, initial_message) ==
    /\ ChatIdle(h)
    /\ ~created[c]
    /\ created' = [created EXCEPT ![c] = TRUE]
    /\ LET content == [title |-> DeriveTitle(title, initial_message, c),
                       messages |-> IF initial_message # NoText
                                       THEN <<UserMessage(initial_message)>> ELSE <<>>]
       IN  /\ file' = [file EXCEPT ![c] = content]
           /\ hContent' = [hContent EXCEPT ![h] = content]
    /\ hChat' = [hChat EXCEPT ![h] = c]
    /\ hPc' = [hPc EXCEPT ![h] = "create_insert"]
    /\ UNCHANGED <<meta, csContent, chatOps>>
    /\ request' = [request EXCEPT ![c] = [title |-> title, initial_message |-> initial_message]]
    /\ UNCHANGED responses
    /\ UNCHANGED <<busVars, jobVars, runnerVars>>

\* create_chat: insert the metadata document.
create_chat_insert(h) ==
    /\ hPc[h] = "create_insert"
    /\ meta' = [meta EXCEPT ![hChat[h]] =
                   [title |-> hContent[h].title,
                    message_count |-> Len(hContent[h].messages),
                    last_message_preview |->
                        IF hContent[h].messages # <<>>
                           THEN Take(hContent[h].messages[1].content, PREVIEW_LEN) ELSE <<>>,
                    agents_used |-> {},
                    created_at |-> "t0", updated_at |-> "t0"]]
    /\ hPc' = [hPc EXCEPT ![h] = "idle"]
    /\ hChat' = [hChat EXCEPT ![h] = None]
    /\ hContent' = [hContent EXCEPT ![h] = NoContent]
    /\ UNCHANGED <<file, csContent, created, chatOps>>
    /\ UNCHANGED otherThanChat

\* create_chat: chats_collection.insert raises (the database is unreachable, the
\* insert is rejected); nothing catches it in create_chat, the file stays.
create_chat_insert_raises(h) ==
    /\ hPc[h] = "create_insert"
    /\ hPc' = [hPc EXCEPT ![h] = "create_raised"]
    /\ UNCHANGED <<meta, file, hChat, hContent, csContent, created, chatOps>>
    /\ UNCHANGED otherThanChat

\* create_new_chat: the exception leaves the endpoint (response 500).
create_new_chat_error(h) ==
    /\ hPc[h] = "create_raised"
    /\ hPc' = [hPc EXCEPT ![h] = "idle"]
    /\ hChat' = [hChat EXCEPT ![h] = None]
    /\ hContent' = [hContent EXCEPT ![h] = NoContent]
    /\ UNCHANGED <<meta, file, csContent, created, chatOps>>
    /\ UNCHANGED otherThanChat

\* get_chat_content: None (Absent) unless the metadata document and the file
\* both exist.
get_chat_content(c) == IF meta[c] = Absent \/ file[c] = Absent THEN Absent ELSE file[c]

\* submit_chat_query: the chat exists (404 otherwise); add_message_to_chat is
\* called next.
submit_chat_query(j, c) ==
    /\ gwPc[j] = "new"
    /\ ChatIdle(HandlerOf(j))
    /\ meta[c] # Absent
    /\ gwPc' = [gwPc EXCEPT ![j] = "append"]
    /\ hPc' = [hPc EXCEPT ![HandlerOf(j)] = "add_message"]
    /\ hChat' = [hChat EXCEPT ![HandlerOf(j)] = c]
    /\ UNCHANGED <<meta, file, hContent, csContent, created, chatOps>>
    /\ UNCHANGED <<jobs, job_queue, eventLog, wPc, wJob, wResult, wMetadata, wError, jobWrites, faults>>
    /\ UNCHANGED <<busVars, runnerVars, requestVars>>

\* add_message_to_chat: load the content (ValueError when there is none) and
\* append the message to the local copy.
add_message_to_chat(h, c, message) ==
    /\ hPc[h] = "add_message"
    /\ hChat[h] = c
    /\ IF get_chat_content(c) = Absent
          THEN /\ hPc' = [hPc EXCEPT ![h] = "raised"]
               /\ UNCHANGED hContent
          ELSE /\ hContent' = [hContent EXCEPT ![h] =
                                  [get_chat_content(c) EXCEPT !.messages = Append(@, message)]]
               /\ hPc' = [hPc EXCEPT ![h] = "save_file"]
    /\ UNCHANGED <<meta, file, hChat, csContent, created, chatOps>>
    /\ UNCHANGED otherThanChat

\* save_chat_content: look the metadata up (ValueError when it is gone) and write
\* the file.
save_chat_content_file(h) ==
    /\ hPc[h] = "save_file"
    /\ IF meta[hChat[h]] = Absent
          THEN /\ hPc' = [hPc EXCEPT ![h] = "raised"]
               /\ UNCHANGED file
          ELSE /\ file' = [file EXCEPT ![hChat[h]] = hContent[h]]
               /\ hPc' = [hPc EXCEPT ![h] = "save_meta"]
    /\ UNCHANGED <<meta, hChat, hContent, csContent, created, chatOps>>
    /\ UNCHANGED otherThanChat

\* save_chat_content: update the metadata document from the content written
\* (the update raises when the document is gone); add_message_to_chat returns.
save_chat_content_meta(h) ==
    /\ hPc[h] = "save_meta"
    /\ IF meta[hChat[h]] = Absent
          THEN /\ hPc' = [hPc EXCEPT ![h] = "raised"]
               /\ UNCHANGED meta
          ELSE /\ meta' = [meta EXCEPT ![hChat[h]] =
                              [title |-> IF hContent[h].title # <<>> THEN hContent[h].title
                                                                    ELSE @.title,
                               message_count |-> MetadataOf(hContent[h]).message_count,
                               last_message_preview |->
                                   MetadataOf(hContent[h]).last_message_preview,
                               agents_used |-> MetadataOf(hContent[h]).agents_used,
                               created_at |-> @.created_at, updated_at |-> "later"]]
               /\ hPc' = [hPc EXCEPT ![h] = "appended"]
    /\ UNCHANGED <<file, hChat, hContent, csContent, created, chatOps>>
    /\ UNCHANGED otherThanChat

\* submit_chat_query: the user message is appended; enqueue_job's first store
\* command, SET job:<job_id>, with the chat_id.
submit_chat_enqueue(j) ==
    /\ gwPc[j] = "append"
    /\ hPc[HandlerOf(j)] = "appended"
    /\ jobs' = [jobs EXCEPT ![j] = job_data(hChat[HandlerOf(j)])]
    /\ jobWrites' = [jobWrites EXCEPT ![j] = Append(@, [status |-> "queued",
                                                        result |-> None, error |-> None])]
    /\ gwPc' = [gwPc EXCEPT ![j] = "rpush"]
    /\ hPc' = [hPc EXCEPT ![HandlerOf(j)] = "idle"]
    /\ hChat' = [hChat EXCEPT ![HandlerOf(j)] = None]
    /\ hContent' = [hContent EXCEPT ![HandlerOf(j)] = NoContent]
    /\ UNCHANGED <<meta, file, csContent, created, chatOps>>
    /\ UNCHANGED <<job_queue, eventLog, wPc, wJob, wResult, wMetadata, wError, faults>>
    /\ UNCHANGED <<busVars, runnerVars, requestVars>>

\* submit_chat_query: the exception of add_message_to_chat leaves the endpoint
\* (response 500); no job is enqueued.
submit_chat_raised(j) ==
    /\ gwPc[j] = "append"
    /\ hPc[HandlerOf(j)] = "raised"
    /\ gwPc' = [gwPc EXCEPT ![j] = "returned"]
    /\ hPc' = [hPc EXCEPT ![HandlerOf(j)] = "idle"]
    /\ hChat' = [hChat EXCEPT ![HandlerOf(j)] = None]
    /\ hContent' = [hContent EXCEPT ![HandlerOf(j)] = NoContent]
    /\ UNCHANGED <<meta, file, csContent, created, chatOps>>
    /\ UNCHANGED <<jobs, job_queue, eventLog, wPc, wJob, wResult, wMetadata, wError, jobWrites, faults>>
    /\ UNCHANGED <<busVars, runnerVars, requestVars>>

\* update_chat_metadata: update the title in the metadata document.
update_chat_metadata(h, c, title) ==
    /\ ChatIdle(h)
    /\ meta[c] # Absent
    /\ meta' = [meta EXCEPT ![c].title = title, ![c].updated_at = "later"]
    /\ hChat' = [hChat EXCEPT ![h] = c]
    /\ hContent' = [hContent EXCEPT ![h] = [title |-> title, messages |-> <<>>]]
    /\ hPc' = [hPc EXCEPT ![h] = "title_read"]
    /\ chatOps' = chatOps + 1
    /\ UNCHANGED <<file, csContent, created>>
    /\ UNCHANGED otherThanChat

\* update_chat_metadata: load the content and set the title in the local copy.
update_chat_metadata_read(h) ==
    /\ hPc[h] = "title_read"
    /\ IF get_chat_content(hChat[h]) = Absent
          THEN /\ hPc' = [hPc EXCEPT ![h] = "idle"]
               /\ hChat' = [hChat EXCEPT ![h] = None]
               /\ hContent' = [hContent EXCEPT ![h] = NoContent]
          ELSE /\ hContent' = [hContent EXCEPT ![h] =
                                  [get_chat_content(hChat[h]) EXCEPT !.title = hContent[h].title]]
               /\ hPc' = [hPc EXCEPT ![h] = "title_write"]
               /\ UNCHANGED hChat
    /\ UNCHANGED <<meta, file, csContent, created, chatOps>>
    /\ UNCHANGED otherThanChat

\* update_chat_metadata: write the local copy back to the file (the lookup of
\* json_path raises when the metadata document is gone).
update_chat_metadata_write(h) ==
    /\ hPc[h] = "title_write"
    /\ file' = IF meta[hChat[h]] = Absent THEN file
               ELSE [file EXCEPT ![hChat[h]] = hContent[h]]
    /\ hPc' = [hPc EXCEPT ![h] = "idle"]
    /\ hChat' = [hChat EXCEPT ![h] = None]
    /\ hContent' = [hContent EXCEPT ![h] = NoContent]
    /\ UNCHANGED <<meta, csContent, created, chatOps>>
    /\ UNCHANGED otherThanChat

\* delete_chat: look the metadata up and unlink the file.
delete_chat_unlink(h, c) ==
    /\ ChatIdle(h)
    /\ meta[c] # Absent
    /\ file' = [file EXCEPT ![c] = Absent]
    /\ hChat' = [hChat EXCEPT ![h] = c]
    /\ hPc' = [hPc EXCEPT ![h] = "delete_doc"]
    /\ chatOps' = chatOps + 1
    /\ UNCHANGED <<meta, hContent, csContent, created>>
    /\ UNCHANGED otherThanChat

\* delete_chat: delete the metadata document.
delete_chat_doc(h) ==
    /\ hPc[h] = "delete_doc"
    /\ meta' = [meta EXCEPT ![hChat[h]] = Absent]
    /\ hPc' = [hPc EXCEPT ![h] = "idle"]
    /\ hChat' = [hChat EXCEPT ![h] = None]
    /\ hContent' = [hContent EXCEPT ![h] = NoContent]
    /\ UNCHANGED <<file, csContent, created, chatOps>>
    /\ UNCHANGED otherThanChat

\* The exception of the history read leaves save_response_to_chat.
save_response_history_propagates(w) ==
    /\ wPc[w] = "save_chat"
    /\ file[chat_id_of(w)] # Absent
    /\ faults' = faults + 1
    /\ wError' = [wError EXCEPT ![w] = StoreError]
    /\ wPc' = [wPc EXCEPT ![w] = "failed"]
    /\ UNCHANGED chatVars
    /\ UNCHANGED <<jobs, job_queue, gwPc, eventLog, wJob, wResult, wMetadata, jobWrites>>
    /\ UNCHANGED <<busVars, runnerVars, requestVars>>

\* QueueConsumer.save_response_to_chat: redis.lrange of the event history raises;
\* the inner except sets event_history = [] and the message is built with it.
save_response_history_raises(w) ==
    /\ wPc[w] = "save_chat"
    /\ file[chat_id_of(w)] # Absent
    /\ faults' = faults + 1
    /\ csContent' = [csContent EXCEPT ![w] =
          [file[chat_id_of(w)] EXCEPT !.messages =
              Append(@, SystemMessage(response_text(wResult[w]),
                                      wMetadata[w].agents_used,
                                      wMetadata[w].tools_called,
                                      wJob[w], <<>>))]]
    /\ wPc' = [wPc EXCEPT ![w] = "save_write"]
    /\ UNCHANGED <<meta, file, hPc, hChat, hContent, created, chatOps>>
    /\ UNCHANGED <<jobs, job_queue, gwPc, eventLog, wJob, wResult, wMetadata, wError,
                   jobWrites>>
    /\ UNCHANGED <<busVars, runnerVars, requestVars>>

\* QueueConsumer.save_response_to_chat: opening or parsing the file raises, or
\* opening it for the write does; the outer except logs the error and the call
\* returns.
save_response_raises(w) ==
    /\ wPc[w] \in {"save_chat", "save_write"}
    /\ file[chat_id_of(w)] # Absent
    /\ faults' = faults + 1
    /\ csContent' = [csContent EXCEPT ![w] = NoContent]
    /\ wPc' = [wPc EXCEPT ![w] = "idle"]
    /\ UNCHANGED <<meta, file, hPc, hChat, hContent, created, chatOps>>
    /\ UNCHANGED <<jobs, job_queue, gwPc, eventLog, wJob, wResult, wMetadata, wError,
                   jobWrites>>
    /\ UNCHANGED <<busVars, runnerVars, requestVars>>

\* QueueConsumer.save_response_to_chat: return when the chat file does not exist;
\* else load it and append the system message to the local copy.
save_response_read(w) ==
    /\ wPc[w] = "save_chat"
    /\ IF file[chat_id_of(w)] = Absent
          THEN /\ wPc' = [wPc EXCEPT ![w] = "idle"]
               /\ UNCHANGED csContent
          ELSE /\ csContent' = [csContent EXCEPT ![w] =
                     [file[chat_id_of(w)] EXCEPT !.messages =
                         Append(@, SystemMessage(response_text(wResult[w]),
                                                 wMetadata[w].agents_used,
                                                 wMetadata[w].tools_called,
                                                 wJob[w], eventLog[wJob[w]]))]]
               /\ wPc' = [wPc EXCEPT ![w] = "save_write"]
    /\ UNCHANGED <<meta, file, hPc, hChat, hContent, created, chatOps>>
    /\ UNCHANGED <<jobs, job_queue, gwPc, eventLog, wJob, wResult, wMetadata, wError, jobWrites, faults>>
    /\ UNCHANGED <<busVars, runnerVars, requestVars>>

\* QueueConsumer.save_response_to_chat: write the local copy back to the file.
save_response_write(w) ==
    /\ wPc[w] = "save_write"
    /\ file' = [file EXCEPT ![chat_id_of(w)] = csContent[w]]
    /\ csContent' = [csContent EXCEPT ![w] = NoContent]
    /\ wPc' = [wPc EXCEPT ![w] = "idle"]
    /\ UNCHANGED <<meta, hPc, hChat, hContent, created, chatOps>>
    /\ UNCHANGED <<jobs, job_queue, gwPc, eventLog, wJob, wResult, wMetadata, wError, jobWrites, faults>>
    /\ UNCHANGED <<busVars, runnerVars, requestVars>>

(***************************************************************************)
(* Initial states: no job, no chat, an empty history, no run of the child. *)
(***************************************************************************)
InitJobVars ==
    /\ jobs = [j \in JobIds |-> Absent]
    /\ job_queue = <<>>
    /\ gwPc = [j \in JobIds |-> "new"]
    /\ eventLog = [j \in JobIds |-> <<>>]
    /\ wPc = [w \in Workers |-> "idle"]
    /\ wJob = [w \in Workers |-> None]
    /\ wResult = [w \in Workers |-> None]
    /\ wMetadata = [w \in Workers |-> EmptyMetadata]
    /\ wError = [w \in Workers |-> None]
    /\ jobWrites = [j \in JobIds |-> <<>>]
    /\ faults = 0

InitChatVars ==
    /\ meta = [c \in ChatIds |-> Absent]
    /\ file = [c \in ChatIds |-> Absent]
    /\ hPc = [h \in Handlers |-> "idle"]
    /\ hChat = [h \in Handlers |-> None]
    /\ hContent = [h \in Handlers |-> NoContent]
    /\ csContent = [w \in Workers |-> NoContent]
    /\ created = [c \in ChatIds |-> FALSE]
    /\ chatOps = 0

(***************************************************************************)
(* OpenCodeRunner.run: the loop over the lines of the child's stdout.      *)
(***************************************************************************)
\* A line longer than this that is not JSON is taken as the response.
RESPONSE_LEN == 50
MESSAGE_WINDOW == 10
CONTENT_LEN == 500

\* The exit codes of the child: clean, or an error.
ExitCodes == {0, 1}

\* A line of the child's output after strip(): its length, what json.loads makes
\* of it ("invalid" when it is not JSON), and for an object its "type", what
\* its "part" holds, whether it carries a text (part.text, text, content or
\* message for a text or message event) and whether it has a "response" key.
Line(len, json, type, part, text, response) ==
    [len |-> len, json |-> json, type |-> type, part |-> part, text |-> text,
     response |-> response]

NonJson(len) == Line(len, "invalid", "none", "absent", "absent", "absent")
JsonObject(type, part) == Line(2, "object", type, part, "text", "absent")
JsonValue(kind) == Line(2, kind, "none", "absent", "absent", "absent")

StdoutLines ==
    {NonJson(n) : n \in {0, 1, RESPONSE_LEN, RESPONSE_LEN + 1}}
        \cup {JsonObject("text", "object"), JsonObject("text", "null"),
              JsonObject("result", "absent"), JsonObject("step_start", "absent"),
              JsonObject("message", "absent"),
              Line(2, "object", "text", "object", "absent", "absent"),
              Line(2, "object", "step_finish", "absent", "absent", "text")}
        \cup {JsonValue(kind) : kind \in {"number", "string", "array", "null"}}

JSONDecodeError == [raised |-> "JSONDecodeError"]

\* json.loads: the value of a JSON text, JSONDecodeError for any other line.
json_loads(line) ==
    IF line.json = "invalid"
       THEN JSONDecodeError
       ELSE [kind |-> line.json, type |-> line.type, part |-> line.part,
             text |-> line.text, response |-> line.response]

\* _handle_event begins with event.get("type"): AttributeError for a value that
\* is no dict.
handle_event_raises(event) == event.kind # "object"

\* The capture of the result: for type "text", part = event.get("part", {}) and
\* part.get("text") is an AttributeError when "part" is null.
capture_raises(event) == event.type = "text" /\ event.part = "null"

\* The values of final_result: None; the event of a result line (its data, its
\* content or the event itself); {"response": text} with the text of a line (of
\* its event, or the line itself when it is no JSON); {"response": the lines of
\* all_output joined by newline}.
NoResult == [kind |-> "None"]
ResultOf(line) == [kind |-> "result", of |-> <<line>>]
ResponseOf(line) == [kind |-> "response", of |-> <<line>>]
Joined(lines) == [kind |-> "joined", of |-> lines]
Completed(lines) == [kind |-> "completed", of |-> lines]

\* The capture of the result: final_result after the event of a line.
capture(line, old) ==
    IF line.type = "result" THEN ResultOf(line)
    ELSE IF line.type \in {"text", "message"}
         THEN (IF line.text = "text" THEN ResponseOf(line) ELSE old)
    ELSE IF line.response = "text" THEN ResponseOf(line)
    ELSE old

\* One pass of `for line in process.stdout`.
parse_line ==
    /\ runPc = "loop"
    /\ stdout # <<>>
    /\ stdout' = Tail(stdout)
    /\ LET line == Head(stdout)
           event == json_loads(line)
       IN  IF line.len = 0
              THEN UNCHANGED <<runPc, final_result, all_output, statusTexts>>
           ELSE /\ all_output' = Append(all_output, line)
                /\ IF event = JSONDecodeError
                      THEN /\ statusTexts' = Append(statusTexts, line)
                           /\ final_result' = IF line.len > RESPONSE_LEN
                                                 THEN ResponseOf(line) ELSE final_result
                           /\ UNCHANGED runPc
                   ELSE IF handle_event_raises(event) \/ capture_raises(event)
                      THEN /\ runPc' = "raised"
                           /\ UNCHANGED <<final_result, statusTexts>>
                   ELSE /\ final_result' = capture(line, final_result)
                        /\ UNCHANGED <<runPc, statusTexts>>
    /\ UNCHANGED <<returncode, handlerVars, promptVars>>
    /\ UNCHANGED otherThanRunner

\* The child has closed its stdout: process.wait().
parse_end ==
    /\ runPc = "loop"
    /\ stdout = <<>>
    /\ runPc' = "wait"
    /\ UNCHANGED <<stdout, returncode, final_result, all_output, statusTexts, handlerVars, promptVars>>
    /\ UNCHANGED otherThanRunner

\* After process.wait(): a nonzero exit code raises; otherwise the result is
\* final_result, or the collected output when there is no final_result.
run_result ==
    /\ runPc = "wait"
    /\ IF returncode # 0
          THEN /\ runPc' = "failed"
               /\ UNCHANGED final_result
          ELSE /\ runPc' = "returned"
               /\ final_result' =
                     IF final_result # NoResult THEN final_result
                     ELSE IF all_output # <<>> THEN Joined(all_output)
                     ELSE Completed(all_output)
    /\ UNCHANGED <<stdout, returncode, all_output, statusTexts, handlerVars, promptVars>>
    /\ UNCHANGED otherThanRunner

(***************************************************************************)
(* OpenCodeRunner._handle_event for tool_use and text events, and          *)
(* _extract_tools_from_output.  Tool names are sequences of characters, so *)
(* that lower() and the substring tests are computed.                      *)
(***************************************************************************)
TaskTool == <<"t", "a", "s", "k">>
UnknownTool == <<"u", "n", "k", "n", "o", "w", "n">>
ToolNames ==
    {TaskTool,
     <<"A", "r", "a", "n", "g", "o">>,
     <<"a", "r", "a", "n", "g", "o", "_", "a", "q", "l">>,
     <<"A", "Q", "L">>,
     <<"e", "x", "e", "c", "u", "t", "e", "-", "a", "q", "l">>,
     <<"w", "e", "b">>}

\* str.lower() on the letters that occur in upper case.
lower_char(ch) ==
    CASE ch = "A" -> "a" [] ch = "Q" -> "q" [] ch = "L" -> "l" [] OTHER -> ch

lower(text) == [i \in DOMAIN text |-> lower_char(text[i])]

\* `needle in text`.
contains(text, needle) ==
    \E i \in 1..(Len(text) - Len(needle) + 1) :
        SubSeq(text, i, i + Len(needle) - 1) = needle

Arango == <<"a", "r", "a", "n", "g", "o">>
Aql == <<"a", "q", "l">>
ExecuteAql == <<"e", "x", "e", "c", "u", "t", "e", "-", "a", "q", "l">>

\* server = "arangodb" if "arango" in tool_name.lower() else "mcp"
server_of(tool_name) == IF contains(lower(tool_name), Arango) THEN "arangodb" ELSE "mcp"

\* "execute-aql" in tool_name or "aql" in tool_name.lower()
is_aql(tool_name) == contains(tool_name, ExecuteAql) \/ contains(lower(tool_name), Aql)

\* The tools listed in a <tool_trace> section: the name, whether args holds a
\* query, whether a result or result_count is given.
TraceTool(tool, has_query, result) == [tool |-> tool, query |-> has_query, result |-> result]

\* The raw text between <tool_trace> and </tool_trace>, and what json.loads
\* makes of it.
Trace(raw, json, tools) == [raw |-> raw, json |-> json, tools |-> tools]

Traces ==
    {Trace("t1", "list", <<TraceTool(<<"A", "r", "a", "n", "g", "o">>, TRUE, TRUE),
                           TraceTool(<<"w", "e", "b">>, FALSE, TRUE)>>),
     Trace("t2", "list", <<TraceTool(<<"w", "e", "b">>, FALSE, FALSE)>>),
     Trace("t3", "invalid", <<>>),
     Trace("t4", "object", <<>>)}

\* The output of a tool: missing or empty, a text without a tool trace, a text
\* that holds a tool trace.
NoOutput == [kind |-> "none"]
PlainOutput == [kind |-> "plain"]
TraceOutput(trace) == [kind |-> "trace", trace |-> trace]
ToolOutputs == {NoOutput, PlainOutput} \cup {TraceOutput(tr) : tr \in Traces}

Subagents == {"", "analyst"}

\* The events of the child handled here.
ToolUse(tool, subagent, status, output) ==
    [type |-> "tool_use", tool |-> tool, subagent |-> subagent, status |-> status,
     output |-> output]

TextEvent(output) ==
    [type |-> "text", tool |-> UnknownTool, subagent |-> "", status |-> "none",
     output |-> output]

HandledEvents ==
    {ToolUse(TaskTool, s, "completed", o) : s \in Subagents, o \in ToolOutputs}
        \cup {ToolUse(tool, "", st, o) :
                 tool \in ToolNames \ {TaskTool}, st \in {"running", "completed"},
                 o \in {NoOutput, PlainOutput}}
        \cup {TextEvent(o) : o \in ToolOutputs \ {NoOutput}}

\* The events event_publisher publishes for the runner.
AgentSwitch(agent) == [type |-> "agent_switch", agent |-> agent]
ToolCall(tool, server) == [type |-> "tool_call", tool |-> tool, server |-> server]
AqlQuery(tool) == [type |-> "aql_query", tool |-> tool]
ToolResult(tool) == [type |-> "tool_result", tool |-> tool]

ToolRecord(tool, server) == [tool |-> tool, server |-> server]

\* _extract_tools_from_output, the body of `for tool in tool_data`: the events
\* published for one tool of a trace.
trace_tool_events(tool, live) ==
    LET server == server_of(tool.tool)
        skip_publish == live /\ server = "mcp"
    IN  (IF skip_publish THEN <<>> ELSE <<ToolCall(tool.tool, server)>>)
        \o (IF tool.query THEN <<AqlQuery(tool.tool)>> ELSE <<>>)
        \o (IF ~skip_publish /\ tool.result THEN <<ToolResult(tool.tool)>> ELSE <<>>)

RECURSIVE trace_events(_, _)
trace_events(tools, live) ==
    IF tools = <<>> THEN <<>>
    ELSE trace_tool_events(Head(tools), live) \o trace_events(Tail(tools), live)

trace_records(tools) == [i \in DOMAIN tools |-> ToolRecord(tools[i].tool, server_of(tools[i].tool))]

\* What _extract_tools_from_output leaves behind: the processed traces, the
\* tools recorded and the events published.
Tracked(processed, tools, events) == [processed |-> processed, tools |-> tools, events |-> events]

\* The raw trace is neither looked up nor remembered.
extract_without_memory(output, tracked, live) ==
    IF output.kind # "trace" \/ output.trace.json # "list"
       THEN tracked
    ELSE Tracked(tracked.processed,
                 tracked.tools \o trace_records(output.trace.tools),
                 tracked.events \o trace_events(output.trace.tools, live))

\* _extract_tools_from_output: nothing for a text without a <tool_trace> section
\* or a raw trace already processed; else remember the raw trace, parse it
\* (a JSONDecodeError is passed over) and, when it is a list, publish and
\* record its tools.
extract_tools_from_output(output, tracked, live) ==
    IF output.kind # "trace"
       THEN tracked
    ELSE IF output.trace.raw \in tracked.processed
       THEN tracked
    ELSE IF output.trace.json # "list"
       THEN Tracked(tracked.processed \cup {output.trace.raw}, tracked.tools, tracked.events)
    ELSE Tracked(tracked.processed \cup {output.trace.raw},
                 tracked.tools \o trace_records(output.trace.tools),
                 tracked.events \o trace_events(output.trace.tools, live))

\* _handle_event, a tool_use event of the tool "task": the agent switch when a
\* sub-agent is named, then the tools of the sub-agent's output.
handle_task(event) ==
    /\ event.type = "tool_use" /\ event.tool = TaskTool
    /\ handled' = handled + 1
    /\ agents_used' =
          IF event.subagent # "" THEN Append(agents_used, event.subagent) ELSE agents_used
    /\ LET switched == IF event.subagent # ""
                          THEN Append(runEvents, AgentSwitch(event.subagent))
                          ELSE runEvents
           after == extract_tools_from_output(
                        event.output,
                        Tracked(processed_tool_traces, tools_called, switched),
                        live_mcp_events)
       IN  /\ processed_tool_traces' = after.processed
           /\ tools_called' = after.tools
           /\ runEvents' = after.events
    /\ ingested' =
          IF event.output.kind # "none" THEN Append(ingested, event.output) ELSE ingested
    /\ UNCHANGED <<live_mcp_events, stdout, returncode, runPc, final_result, all_output,
                   statusTexts, promptVars>>
    /\ UNCHANGED otherThanRunner

\* _handle_event, a tool_use event of any other tool: tool_call, the record,
\* aql_query for an AQL tool, tool_result when the tool has completed with an
\* output.
handle_tool_use(event) ==
    /\ event.type = "tool_use" /\ event.tool # TaskTool
    /\ handled' = handled + 1
    /\ runEvents' =
          runEvents \o <<ToolCall(event.tool, server_of(event.tool))>>
              \o (IF is_aql(event.tool) THEN <<AqlQuery(event.tool)>> ELSE <<>>)
              \o (IF event.status = "completed" /\ event.output.kind # "none"
                     THEN <<ToolResult(event.tool)>> ELSE <<>>)
    /\ tools_called' = Append(tools_called, ToolRecord(event.tool, server_of(event.tool)))
    /\ UNCHANGED <<agents_used, processed_tool_traces, live_mcp_events, ingested, stdout,
                   returncode, runPc, final_result, all_output, statusTexts, promptVars>>
    /\ UNCHANGED otherThanRunner

\* _handle_event, a text event: the tools of its text.
handle_text(event) ==
    /\ event.type = "text"
    /\ handled' = handled + 1
    /\ LET after == extract_tools_from_output(
                        event.output,
                        Tracked(processed_tool_traces, tools_called, runEvents),
                        live_mcp_events)
       IN  /\ processed_tool_traces' = after.processed
           /\ tools_called' = after.tools
           /\ runEvents' = after.events
    /\ ingested' = Append(ingested, event.output)
    /\ UNCHANGED <<agents_used, live_mcp_events, stdout, returncode, runPc, final_result,
                   all_output, statusTexts, promptVars>>
    /\ UNCHANGED otherThanRunner

(***************************************************************************)
(* OpenCodeRunner.build_prompt and _format_chat_history.  A prompt is the   *)
(* sequence of its parts; the content of a message is a sequence of        *)
(* characters.                                                             *)
(***************************************************************************)
\* The letter that fills the content of the i-th message of a history.
Letters == <<"a", "b", "c", "d", "e", "f", "g", "h", "i", "j", "k", "l", "m">>

ContentLens == <<0, 1, CONTENT_LEN - 1, CONTENT_LEN, CONTENT_LEN + 1>>

Message(role, content) == [role |-> role, content |-> content]

\* A history of n messages, user and assistant in turn; the lengths of the
\* contents run through ContentLens from the position shift on.
History(n, shift) ==
    [i \in 1..n |->
        Message(IF i % 2 = 1 THEN "user" ELSE "assistant",
                [k \in 1..ContentLens[((i + shift) % Len(ContentLens)) + 1] |-> Letters[i]])]

PromptQueries == {<<"q">>, <<"q", "2">>}

\* The parts of a prompt.
RouterPart == [part |-> "router"]
HeaderPart == [part |-> "header"]
MessagePart(role, content) == [part |-> "message", role |-> role, content |-> content]
SeparatorPart == [part |-> "separator"]
QueryPart(text) == [part |-> "query", text |-> text]
ClosingPart == [part |-> "closing"]

\* All messages are formatted, not the last MESSAGE_WINDOW only.
format_whole_history(messages) ==
    IF messages = <<>> THEN <<>>
    ELSE <<HeaderPart>>
         \o [i \in DOMAIN messages |->
                MessagePart(IF messages[i].role = "user" THEN "User" ELSE "Assistant",
                            IF Len(messages[i].content) > CONTENT_LEN
                               THEN SubSeq(messages[i].content, 1, CONTENT_LEN) \o Ellipsis
                               ELSE messages[i].content)]
         \o <<SeparatorPart>>

\* _format_chat_history: messages[-10:], each content longer than 500
\* characters cut to content[:500] + "...".
format_chat_history(messages) ==
    IF messages = <<>> THEN <<>>
    ELSE LET recent_messages ==
                 SubSeq(messages, Max(1, Len(messages) - MESSAGE_WINDOW + 1), Len(messages))
         IN  <<HeaderPart>>
             \o [i \in DOMAIN recent_messages |->
                    MessagePart(IF recent_messages[i].role = "user" THEN "User" ELSE "Assistant",
                                IF Len(recent_messages[i].content) > CONTENT_LEN
                                   THEN SubSeq(recent_messages[i].content, 1, CONTENT_LEN)
                                            \o Ellipsis
                                   ELSE recent_messages[i].content)]
             \o <<SeparatorPart>>

\* build_prompt: the router instructions when there are any, the history
\* context, the current query, the closing line.
build_prompt ==
    /\ prompt = <<>>
    /\ prompt' = (IF router_instructions THEN <<RouterPart>> ELSE <<>>)
                    \o (IF chat_history # <<>> THEN format_chat_history(chat_history) ELSE <<>>)
                    \o <<QueryPart(query), ClosingPart>>
    /\ UNCHANGED <<chat_history, query, router_instructions>>
    /\ UNCHANGED <<stdout, returncode, runPc, final_result, all_output, statusTexts,
                   handlerVars>>
    /\ UNCHANGED otherThanRunner

\* No prompt is being built.
InitPromptVars ==
    /\ chat_history = <<>>
    /\ query = <<>>
    /\ router_instructions = FALSE
    /\ prompt = <<>>

\* A new runner: nothing tracked; LIVE_MCP_TOOL_EVENTS is "1" unless set.
InitHandlerVars ==
    /\ tools_called = <<>>
    /\ agents_used = <<>>
    /\ processed_tool_traces = {}
    /\ live_mcp_events = TRUE
    /\ runEvents = <<>>
    /\ ingested = <<>>
    /\ handled = 0

\* No run of the runner is modelled: the child writes nothing.
InitRunnerVars ==
    /\ stdout = <<>>
    /\ returncode = 0
    /\ runPc = "idle"
    /\ final_result = NoResult
    /\ all_output = <<>>
    /\ statusTexts = <<>>
    /\ InitHandlerVars
    /\ InitPromptVars

\* No create_chat call has been made.
InitRequestVars ==
    /\ request = [c \in ChatIds |-> Absent]
    /\ responses = <<>>

(***************************************************************************)
(* The endpoints that look a job or a chat up: what they answer.           *)
(***************************************************************************)
Response(endpoint, id, status_code) ==
    [endpoint |-> endpoint, id |-> id, status_code |-> status_code]

\* get_job_status: 404 unless queue.get_job finds the record.
get_job_status(j) ==
    /\ responses' = Append(responses,
                           Response("get_job_status", j, IF jobs[j] = Absent THEN 404 ELSE 200))
    /\ UNCHANGED <<request, busVars, jobVars, chatVars, runnerVars>>

\* stream_events: 404 unless queue.get_job finds the record; else the event
\* stream is returned.
stream_events(j) ==
    /\ responses' = Append(responses,
                           Response("stream_events", j, IF jobs[j] = Absent THEN 404 ELSE 200))
    /\ UNCHANGED <<request, busVars, jobVars, chatVars, runnerVars>>

\* get_chat: 404 unless the metadata document and the content are found.
get_chat(c) ==
    /\ responses' = Append(responses,
                           Response("get_chat", c,
                                    IF meta[c] = Absent THEN 404
                                    ELSE IF get_chat_content(c) = Absent THEN 404
                                    ELSE 200))
    /\ UNCHANGED <<request, busVars, jobVars, chatVars, runnerVars>>

\* update_chat: the request has no title; 400 before the store is asked.
update_chat_no_updates(c) ==
    /\ responses' = Append(responses, Response("update_chat", c, 400))
    /\ UNCHANGED <<request, busVars, jobVars, chatVars, runnerVars>>

\* update_chat: update_chat_metadata finds no document and returns None; 404.
update_chat_not_found(h, c) ==
    /\ ChatIdle(h)
    /\ meta[c] = Absent
    /\ responses' = Append(responses, Response("update_chat", c, 404))
    /\ UNCHANGED <<request, busVars, jobVars, chatVars, runnerVars>>

\* The file of a chat without a metadata document is removed.
delete_chat_unlinks_anyway(h, c) ==
    /\ ChatIdle(h)
    /\ meta[c] = Absent
    /\ file' = [file EXCEPT ![c] = Absent]
    /\ responses' = Append(responses, Response("delete_chat_endpoint", c, 404))
    /\ UNCHANGED <<meta, hPc, hChat, hContent, csContent, created, chatOps>>
    /\ UNCHANGED <<request, busVars, jobVars, runnerVars>>

\* delete_chat_endpoint: delete_chat finds no metadata and returns False; 404.
delete_chat_not_found(h, c) ==
    /\ ChatIdle(h)
    /\ meta[c] = Absent
    /\ responses' = Append(responses, Response("delete_chat_endpoint", c, 404))
    /\ UNCHANGED <<request, busVars, jobVars, chatVars, runnerVars>>

\* submit_chat_query: get_chat_metadata finds nothing; 404 before any message
\* is added and before enqueue_job.
submit_chat_query_not_found(j, c) ==
    /\ gwPc[j] = "new"
    /\ ChatIdle(HandlerOf(j))
    /\ meta[c] = Absent
    /\ responses' = Append(responses, Response("submit_chat_query", c, 404))
    /\ UNCHANGED <<request, busVars, jobVars, chatVars, runnerVars>>

InitBusVars ==
    /\ history = <<>>
    /\ ttl = -1
    /\ pubPc = [p \in Publishers |-> "idle"]
    /\ pubEvent = [p \in Publishers |-> QueuedEvent]
    /\ pushed = <<>>
    /\ published = <<>>
    /\ lost = {}
    /\ subPc = [s \in Subscribers |-> "init"]
    /\ snapshot = [s \in Subscribers |-> <<>>]
    /\ seen_ids = [s \in Subscribers |-> {}]
    /\ inbox = [s \in Subscribers |-> <<>>]
    /\ yielded = [s \in Subscribers |-> <<>>]
    /\ skipped = [s \in Subscribers |-> {}]

(***************************************************************************)
(* The event bus: publishers, subscribers and the passing of time.         *)
(***************************************************************************)
InitBus == InitBusVars /\ InitJobVars /\ InitChatVars /\ InitRunnerVars /\ InitRequestVars

\* One subscriber; the gateway and the worker publish.
BusPublishers == {"gateway", "worker"}

NextBus ==
    \/ \E p \in BusPublishers : Len(pushed) < MaxPublishes /\ publish_rpush(p)
    \/ \E p \in BusPublishers : publish_ltrim(p)
    \/ \E p \in BusPublishers : publish_expire(p)
    \/ \E p \in BusPublishers : publish_publish(p)
    \/ Advance(HISTORY_TTL)
    \/ subscribe_channel("s1")
    \/ subscribe_lrange("s1")
    \/ subscribe_replay("s1")
    \/ subscribe_listen("s1")

SpecBus == InitBus /\ [][NextBus]_vars

(***************************************************************************)
(* History write failures: the subscriber registers before the first       *)
(* publish is called; the store commands of publish may raise.             *)
(***************************************************************************)
NoPublishCalled ==
    /\ pushed = <<>>
    /\ \A p \in Publishers : pubPc[p] = "idle"

NextFault ==
    \/ \E p \in BusPublishers :
          subPc["s1"] # "init" /\ Len(pushed) < MaxPublishes /\ publish_rpush(p)
    \/ \E p \in BusPublishers :
          subPc["s1"] # "init" /\ Len(pushed) < MaxPublishes /\ publish_rpush_raises(p)
    \/ \E p \in BusPublishers : publish_ltrim(p)
    \/ \E p \in BusPublishers : publish_expire(p)
    \/ \E p \in BusPublishers : publish_history_raises(p)
    \/ \E p \in BusPublishers : publish_raised(p)
    \/ \E p \in BusPublishers : publish_publish(p)
    \/ NoPublishCalled /\ subscribe_channel("s1")
    \/ subscribe_lrange("s1")
    \/ subscribe_replay("s1")
    \/ subscribe_listen("s1")

SpecFault == InitBus /\ [][NextFault]_vars

(***************************************************************************)
(* Replay: subscriber s1 registers on the channel before the first         *)
(* publish, subscriber s2 after the last publish has returned.             *)
(***************************************************************************)
NoPublishInFlight == \A p \in Publishers : pubPc[p] \in {"idle", "returned"}

NextReplay ==
    \/ /\ subPc["s1"] # "init"
       /\ subPc["s2"] = "init"
       /\ Len(pushed) < MaxPublishes
       /\ publish_rpush("worker")
    \/ publish_ltrim("worker")
    \/ publish_expire("worker")
    \/ publish_publish("worker")
    \/ Advance(HISTORY_TTL)
    \/ subscribe_channel("s1")
    \/ NoPublishInFlight /\ published # <<>> /\ subscribe_channel("s2")
    \/ \E s \in Subscribers : subscribe_lrange(s)
    \/ \E s \in Subscribers : subscribe_replay(s)
    \/ \E s \in Subscribers : subscribe_listen(s)

SpecReplay == InitBus /\ [][NextReplay]_vars

(***************************************************************************)
(* The history list under concurrent publishers, starting from a history   *)
(* that earlier publishes have filled up to (or one short of) MAX_HISTORY. *)
(***************************************************************************)
BacklogSizes == {MAX_HISTORY - 1, MAX_HISTORY}

\* The events of n earlier publishes, stamped before the ones drawn later.
Backlog(n) == [i \in 1..n |-> [type |-> "status", timestamp |-> i - n - 1, body |-> "b1"]]

InitHist ==
    /\ \E n \in BacklogSizes :
          /\ history = Backlog(n)
          /\ pushed = Backlog(n)
          /\ published = Backlog(n)
    /\ ttl = HISTORY_TTL
    /\ pubPc = [p \in Publishers |-> "idle"]
    /\ pubEvent = [p \in Publishers |-> QueuedEvent]
    /\ lost = {}
    /\ subPc = [s \in Subscribers |-> "init"]
    /\ snapshot = [s \in Subscribers |-> <<>>]
    /\ seen_ids = [s \in Subscribers |-> {}]
    /\ inbox = [s \in Subscribers |-> <<>>]
    /\ yielded = [s \in Subscribers |-> <<>>]
    /\ skipped = [s \in Subscribers |-> {}]
    /\ InitJobVars
    /\ InitChatVars
    /\ InitRunnerVars
    /\ InitRequestVars

NextHist ==
    \/ \E p \in Publishers :
          Len(pushed) < MAX_HISTORY + MaxPublishes /\ publish_rpush(p)
    \/ \E p \in Publishers : publish_ltrim(p)
    \/ \E p \in Publishers : publish_expire(p)
    \/ \E p \in Publishers : publish_publish(p)
    \/ \E d \in {HISTORY_TTL - 1, HISTORY_TTL} : Advance(d)

SpecHist == InitHist /\ [][NextHist]_vars

(***************************************************************************)
(* Expiry of the history: the worker publishes; between two publishes      *)
(* HISTORY_TTL - 1 seconds may pass, and one second may pass at any time,  *)
(* also between the store commands of a publish.                           *)
(***************************************************************************)
NextExpiry ==
    \/ Len(pushed) < MaxPublishes /\ publish_rpush("worker")
    \/ publish_ltrim("worker")
    \/ publish_expire("worker")
    \/ publish_publish("worker")
    \/ Advance(1)
    \/ NoPublishInFlight /\ Advance(HISTORY_TTL - 1)

SpecExpiry == InitBus /\ [][NextExpiry]_vars

(***************************************************************************)
(* The job pipeline: gateway handlers submit jobs, workers process them.   *)
(***************************************************************************)
InitJob == InitJobVars /\ InitBusVars /\ InitChatVars /\ InitRunnerVars /\ InitRequestVars

NextJob ==
    \/ \E j \in JobIds : enqueue_set(j, None)
    \/ \E j \in JobIds : enqueue_rpush(j)
    \/ \E j \in JobIds : submit_publish(j)
    \/ \E w \in Workers : run_blpop(w)
    \/ \E w \in Workers : process_get_job(w)
    \/ \E w \in Workers : process_processing(w)
    \/ \E w \in Workers : process_publish_status(w)
    \/ \E w \in Workers, r \in RunnerResults : runner_returns(w, r)
    \/ \E w \in Workers, m \in ErrorTexts : runner_raises(w, m)
    \/ \E w \in Workers, output \in Outputs : runner_exit_nonzero(w, output)
    \/ \E w \in Workers : runner_cli_missing(w)
    \/ \E w \in Workers : process_completed(w)
    \/ \E w \in Workers : process_publish_complete(w)
    \/ \E w \in Workers : process_failed(w)
    \/ \E w \in Workers : process_publish_error(w)
    \/ \E w \in Workers : faults < MaxFaults /\ call_raises(w)
    \/ \E w \in Workers : signal_handler(w)

SpecJob == InitJob /\ [][NextJob]_vars

(***************************************************************************)
(* The pipeline without faults: every store and bus call succeeds, no      *)
(* signal arrives, every child ends.  A worker that is running takes its   *)
(* next step eventually: run() polls the queue in a loop and process_job   *)
(* goes from one call to the next.                                         *)
(***************************************************************************)
GatewayStep(j) ==
    \/ enqueue_set(j, None)
    \/ enqueue_rpush(j)
    \/ submit_publish(j)

WorkerStep(w) ==
    \/ run_blpop(w)
    \/ process_get_job(w)
    \/ process_processing(w)
    \/ process_publish_status(w)
    \/ \E r \in RunnerResults : runner_returns(w, r)
    \/ \E m \in ErrorTexts : runner_raises(w, m)
    \/ \E output \in Outputs : runner_exit_nonzero(w, output)
    \/ runner_cli_missing(w)
    \/ process_completed(w)
    \/ process_publish_complete(w)
    \/ process_failed(w)
    \/ process_publish_error(w)

NextLive ==
    \/ \E j \in JobIds : GatewayStep(j)
    \/ \E w \in Workers : WorkerStep(w)

SpecLive == InitJob /\ [][NextLive]_vars /\ \A w \in Workers : WF_vars(WorkerStep(w))

(***************************************************************************)
(* Missing records: the store may lose the record of a job whose id is on  *)
(* the queue, before a worker pops it.                                     *)
(***************************************************************************)
NextMissing ==
    \/ \E j \in JobIds : enqueue_set(j, None)
    \/ \E j \in JobIds : enqueue_rpush(j)
    \/ \E j \in JobIds : submit_publish(j)
    \/ \E j \in JobIds : j \in Range(job_queue) /\ record_lost(j)
    \/ \E w \in Workers : run_blpop(w)
    \/ \E w \in Workers : process_get_job(w)
    \/ \E w \in Workers : process_processing(w)
    \/ \E w \in Workers : process_publish_status(w)
    \/ \E w \in Workers, r \in RunnerResults : runner_returns(w, r)
    \/ \E w \in Workers, m \in ErrorTexts : runner_raises(w, m)
    \/ \E w \in Workers : process_completed(w)
    \/ \E w \in Workers : process_publish_complete(w)
    \/ \E w \in Workers : process_failed(w)
    \/ \E w \in Workers : process_publish_error(w)

SpecMissing == InitJob /\ [][NextMissing]_vars

(***************************************************************************)
(* SSE streams: two clients follow one job; each may disconnect at any     *)
(* point of its stream.  The worker processes the job; a tool server       *)
(* publishes the tool calls of the run, each publish call returning before *)
(* the run ends.  stream_events answers 404 until the job record exists.   *)
(* The worker process is scheduled whatever the clients do.                *)
(***************************************************************************)
Running == wPc["w1"] = "run"

SubscriberStep(s) ==
    \/ subscribe_channel(s)
    \/ subscribe_lrange(s)
    \/ subscribe_replay(s)
    \/ subscribe_listen(s)
    \/ subscribe_disconnect(s)

JobStep ==
    \/ enqueue_set("j1", None)
    \/ enqueue_rpush("j1")
    \/ submit_publish("j1")
    \/ run_blpop("w1")
    \/ process_get_job("w1")
    \/ process_processing("w1")
    \/ process_publish_status("w1")
    \/ \E r \in RunnerResults : NoPublishInFlight /\ runner_returns("w1", r)
    \/ \E m \in ErrorTexts : NoPublishInFlight /\ runner_raises("w1", m)
    \/ process_completed("w1")
    \/ process_publish_complete("w1")
    \/ process_failed("w1")
    \/ process_publish_error("w1")

\* The store commands that finish a publish call of the tool server.
PublishStep ==
    \/ publish_ltrim("tool")
    \/ publish_expire("tool")
    \/ publish_publish("tool")

NextSse ==
    \/ JobStep
    \/ Running /\ Len(pushed) < MaxStreamed /\ publish_rpush("tool")
    \/ PublishStep
    \/ \E s \in Subscribers : jobs["j1"] # Absent /\ SubscriberStep(s)

SpecSse == InitBus /\ [][NextSse]_vars /\ WF_vars(JobStep) /\ WF_vars(PublishStep)

(***************************************************************************)
(* The chat store: two gateway handlers (request threads) and the worker   *)
(* operate on the chats.                                                   *)
(***************************************************************************)
InitChat == InitChatVars /\ InitBusVars /\ InitJobVars /\ InitRunnerVars /\ InitRequestVars

NextChat ==
    \/ \E h \in Handlers, c \in ChatIds, title \in {NoText, GivenTitle},
          initial_message \in {NoText} \cup Texts :
             create_chat_file(h, c, title, initial_message)
    \/ \E h \in Handlers : create_chat_insert(h)
    \/ \E h \in Handlers : create_chat_insert_raises(h)
    \/ \E h \in Handlers : create_new_chat_error(h)
    \/ \E j \in ChatJobs, c \in ChatIds : submit_chat_query(j, c)
    \/ \E j \in ChatJobs, c \in ChatIds :
          add_message_to_chat(HandlerOf(j), c, UserMessage(QueryOf(j)))
    \/ \E h \in Handlers : save_chat_content_file(h)
    \/ \E h \in Handlers : save_chat_content_meta(h)
    \/ \E j \in ChatJobs : submit_chat_enqueue(j)
    \/ \E j \in ChatJobs : submit_chat_raised(j)
    \/ \E j \in ChatJobs : enqueue_rpush(j)
    \/ \E j \in ChatJobs : submit_publish(j)
    \/ \E h \in Handlers, c \in ChatIds :
          chatOps < MaxChatOps /\ update_chat_metadata(h, c, GivenTitle)
    \/ \E h \in Handlers : update_chat_metadata_read(h)
    \/ \E h \in Handlers : update_chat_metadata_write(h)
    \/ \E h \in Handlers, c \in ChatIds :
          chatOps < MaxChatOps /\ delete_chat_unlink(h, c)
    \/ \E h \in Handlers : delete_chat_doc(h)
    \/ \E w \in ChatWorkers : run_blpop(w)
    \/ \E w \in ChatWorkers : process_get_job(w)
    \/ \E w \in ChatWorkers : process_processing(w)
    \/ \E w \in ChatWorkers : process_publish_status(w)
    \/ \E w \in ChatWorkers : process_load_history(w)
    \/ \E w \in ChatWorkers, r \in RunnerResults : runner_returns(w, r)
    \/ \E w \in ChatWorkers, m \in ErrorTexts : runner_raises(w, m)
    \/ \E w \in ChatWorkers, output \in Outputs : runner_exit_nonzero(w, output)
    \/ \E w \in ChatWorkers : runner_cli_missing(w)
    \/ \E w \in ChatWorkers : process_completed(w)
    \/ \E w \in ChatWorkers : process_publish_complete(w)
    \/ \E w \in ChatWorkers : save_response_read(w)
    \/ \E w \in ChatWorkers : save_response_write(w)
    \/ \E w \in ChatWorkers : process_failed(w)
    \/ \E w \in ChatWorkers : process_publish_error(w)

SpecChat == InitChat /\ [][NextChat]_vars

\* The texts of every length around the two slices of create_chat.
Text(n) == [i \in 1..n |-> "x"]

CreateTexts ==
    {Text(n) : n \in {0, 1, 2, TITLE_LEN - 1, TITLE_LEN, TITLE_LEN + 1,
                      PREVIEW_LEN - 1, PREVIEW_LEN, PREVIEW_LEN + 1}}

\* Creation of chats: POST /api/chats with every title and initial message.
NextCreate ==
    \/ \E h \in Handlers, c \in ChatIds, title \in {NoText, GivenTitle},
          initial_message \in CreateTexts :
             create_chat_file(h, c, title, initial_message)
    \/ \E h \in Handlers : create_chat_insert(h)
    \/ \E h \in Handlers : create_chat_insert_raises(h)
    \/ \E h \in Handlers : create_new_chat_error(h)

SpecCreate == InitChat /\ [][NextCreate]_vars

\* Requests for jobs and chats that exist or not: chats are created and
\* deleted, a chat query and a plain query are submitted.
NextLookup ==
    \/ \E h \in Handlers, c \in ChatIds, initial_message \in {ShortText} :
          create_chat_file(h, c, NoText, initial_message)
    \/ \E h \in Handlers : create_chat_insert(h)
    \/ \E h \in Handlers : create_chat_insert_raises(h)
    \/ \E h \in Handlers : create_new_chat_error(h)
    \/ \E h \in Handlers, c \in ChatIds :
          chatOps < MaxChatOps /\ delete_chat_unlink(h, c)
    \/ \E h \in Handlers : delete_chat_doc(h)
    \/ \E c \in ChatIds : submit_chat_query("j1", c)
    \/ \E c \in ChatIds : add_message_to_chat(HandlerOf("j1"), c, UserMessage(QueryOf("j1")))
    \/ \E h \in Handlers : save_chat_content_file(h)
    \/ \E h \in Handlers : save_chat_content_meta(h)
    \/ submit_chat_enqueue("j1")
    \/ submit_chat_raised("j1")
    \/ enqueue_set("j2", None)
    \/ \E j \in JobIds : enqueue_rpush(j)
    \/ \E j \in JobIds : submit_publish(j)
    \/ \E j \in JobIds : Len(responses) < MaxResponses /\ get_job_status(j)
    \/ \E j \in JobIds : Len(responses) < MaxResponses /\ stream_events(j)
    \/ \E c \in ChatIds : Len(responses) < MaxResponses /\ get_chat(c)
    \/ \E c \in ChatIds : Len(responses) < MaxResponses /\ update_chat_no_updates(c)
    \/ \E h \in Handlers, c \in ChatIds :
          Len(responses) < MaxResponses /\ update_chat_not_found(h, c)
    \/ \E h \in Handlers, c \in ChatIds :
          Len(responses) < MaxResponses /\ delete_chat_not_found(h, c)
    \/ \E c \in ChatIds :
          Len(responses) < MaxResponses /\ submit_chat_query_not_found("j1", c)

SpecLookup == InitChat /\ [][NextLookup]_vars

\* Saving the response: one query to a chat; the history read and the file
\* operations of save_response_to_chat may raise.
NextSave ==
    \/ \E h \in Handlers, c \in ChatIds, initial_message \in {NoText} \cup Texts :
          create_chat_file(h, c, GivenTitle, initial_message)
    \/ \E h \in Handlers : create_chat_insert(h)
    \/ \E j \in ChatJobs, c \in ChatIds : submit_chat_query(j, c)
    \/ \E j \in ChatJobs, c \in ChatIds :
          add_message_to_chat(HandlerOf(j), c, UserMessage(QueryOf(j)))
    \/ \E h \in Handlers : save_chat_content_file(h)
    \/ \E h \in Handlers : save_chat_content_meta(h)
    \/ \E j \in ChatJobs : submit_chat_enqueue(j)
    \/ \E j \in ChatJobs : enqueue_rpush(j)
    \/ \E j \in ChatJobs : submit_publish(j)
    \/ \E w \in ChatWorkers : run_blpop(w)
    \/ \E w \in ChatWorkers : process_get_job(w)
    \/ \E w \in ChatWorkers : process_processing(w)
    \/ \E w \in ChatWorkers : process_publish_status(w)
    \/ \E w \in ChatWorkers : process_load_history(w)
    \/ \E w \in ChatWorkers, r \in RunnerResults : runner_returns(w, r)
    \/ \E w \in ChatWorkers, m \in ErrorTexts : runner_raises(w, m)
    \/ \E w \in ChatWorkers : process_completed(w)
    \/ \E w \in ChatWorkers : process_publish_complete(w)
    \/ \E w \in ChatWorkers : save_response_read(w)
    \/ \E w \in ChatWorkers : faults < MaxFaults /\ save_response_history_raises(w)
    \/ \E w \in ChatWorkers : faults < MaxFaults /\ save_response_raises(w)
    \/ \E w \in ChatWorkers : save_response_write(w)
    \/ \E w \in ChatWorkers : process_failed(w)
    \/ \E w \in ChatWorkers : process_publish_error(w)

SpecSave == InitChat /\ [][NextSave]_vars

\* Conversations: two queries to one chat, with no title update and no delete
\* (so the chat a query names is still there when its message is appended).
NextConv ==
    \/ \E h \in Handlers, c \in ChatIds, title \in {NoText, GivenTitle},
          initial_message \in {NoText} \cup Texts :
             create_chat_file(h, c, title, initial_message)
    \/ \E h \in Handlers : create_chat_insert(h)
    \/ \E h \in Handlers : create_chat_insert_raises(h)
    \/ \E h \in Handlers : create_new_chat_error(h)
    \/ \E j \in JobIds, c \in ChatIds : submit_chat_query(j, c)
    \/ \E j \in JobIds, c \in ChatIds :
          add_message_to_chat(HandlerOf(j), c, UserMessage(QueryOf(j)))
    \/ \E h \in Handlers : save_chat_content_file(h)
    \/ \E h \in Handlers : save_chat_content_meta(h)
    \/ \E j \in JobIds : submit_chat_enqueue(j)
    \/ \E j \in JobIds : enqueue_rpush(j)
    \/ \E j \in JobIds : submit_publish(j)
    \/ \E w \in ChatWorkers : run_blpop(w)
    \/ \E w \in ChatWorkers : process_get_job(w)
    \/ \E w \in ChatWorkers : process_processing(w)
    \/ \E w \in ChatWorkers : process_publish_status(w)
    \/ \E w \in ChatWorkers : process_load_history(w)
    \/ \E w \in ChatWorkers, r \in RunnerResults : runner_returns(w, r)
    \/ \E w \in ChatWorkers, m \in ErrorTexts : runner_raises(w, m)
    \/ \E w \in ChatWorkers, output \in Outputs : runner_exit_nonzero(w, output)
    \/ \E w \in ChatWorkers : runner_cli_missing(w)
    \/ \E w \in ChatWorkers : process_completed(w)
    \/ \E w \in ChatWorkers : process_publish_complete(w)
    \/ \E w \in ChatWorkers : save_response_read(w)
    \/ \E w \in ChatWorkers : save_response_write(w)
    \/ \E w \in ChatWorkers : process_failed(w)
    \/ \E w \in ChatWorkers : process_publish_error(w)

SpecConv == InitChat /\ [][NextConv]_vars

\* The runner has started the child, which writes up to MaxLines lines.
InitParse ==
    /\ \E n \in 0..MaxLines : stdout \in [1..n -> StdoutLines]
    /\ returncode \in ExitCodes
    /\ runPc = "loop"
    /\ final_result = NoResult
    /\ all_output = <<>>
    /\ statusTexts = <<>>
    /\ InitHandlerVars
    /\ InitPromptVars
    /\ InitBusVars /\ InitJobVars /\ InitChatVars /\ InitRequestVars

NextParse == parse_line \/ parse_end \/ run_result

SpecParse == InitParse /\ [][NextParse]_vars

\* build_prompt on histories of up to MaxMessages messages.
InitPrompt ==
    /\ \E n \in 0..MaxMessages, shift \in 0..(Len(ContentLens) - 1) :
          chat_history = History(n, shift)
    /\ query \in PromptQueries
    /\ router_instructions \in BOOLEAN
    /\ prompt = <<>>
    /\ InitHandlerVars
    /\ stdout = <<>>
    /\ returncode = 0
    /\ runPc = "idle"
    /\ final_result = NoResult
    /\ all_output = <<>>
    /\ statusTexts = <<>>
    /\ InitBusVars /\ InitJobVars /\ InitChatVars /\ InitRequestVars

NextPrompt == build_prompt

SpecPrompt == InitPrompt /\ [][NextPrompt]_vars

\* The runner handling the events of one child, on either setting of
\* LIVE_MCP_TOOL_EVENTS.
InitHandle ==
    /\ stdout = <<>>
    /\ returncode = 0
    /\ runPc = "loop"
    /\ final_result = NoResult
    /\ all_output = <<>>
    /\ statusTexts = <<>>
    /\ tools_called = <<>>
    /\ agents_used = <<>>
    /\ processed_tool_traces = {}
    /\ live_mcp_events \in BOOLEAN
    /\ runEvents = <<>>
    /\ ingested = <<>>
    /\ handled = 0
    /\ InitPromptVars
    /\ InitBusVars /\ InitJobVars /\ InitChatVars /\ InitRequestVars

NextHandle ==
    \/ \E event \in HandledEvents : handled < MaxEvents /\ handle_task(event)
    \/ \E event \in HandledEvents : handled < MaxEvents /\ handle_tool_use(event)
    \/ \E event \in HandledEvents : handled < MaxEvents /\ handle_text(event)

SpecHandle == InitHandle /\ [][NextHandle]_vars

(***************************************************************************)
(* Properties of subscribe.                                                *)
(***************************************************************************)
KeyCount(seq, k) == Cardinality({i \in DOMAIN seq : event_id(seq[i]) = k})

\* The subscriber is in the live loop and has consumed every message sent to it.
CaughtUp(s) == subPc[s] = "listen" /\ inbox[s] = <<>>

\* C3: subscribe registers on the channel before it reads the history, so an
\* event published once (no other event of the job has its key), whose publish has
\* returned and which expiry or trimming has not removed from the history, has
\* been yielded to every subscriber that has caught up (and so has not ended on a
\* terminal event), however the steps of the publish fell between the
\* subscriber's.
C3_PublishedEventYielded ==
    \A s \in Subscribers : \A e \in Range(published) :
        (CaughtUp(s) /\ e \notin lost /\ KeyCount(pushed, event_id(e)) = 1)
            => e \in Range(yielded[s])

\* The race the order of subscribe closes: one event, published while the
\* subscriber was between registering on the channel and reading the history,
\* reached it both ways and was yielded.
C3_Witness ==
    /\ CaughtUp("s1")
    /\ Len(published) = 1
    /\ published[1] \in skipped["s1"]
    /\ published[1] \in Range(yielded["s1"])

\* C4: an event published twice with identical type and timestamp is yielded
\* exactly once by a subscriber: never twice, and once when it has caught up.
C4_DedupIdempotence ==
    \A s \in Subscribers : \A e \in Range(pushed) :
        KeyCount(pushed, event_id(e)) >= 2 =>
            /\ KeyCount(yielded[s], event_id(e)) <= 1
            /\ (CaughtUp(s) /\ lost = {} /\ pushed = published)
                   => KeyCount(yielded[s], event_id(e)) = 1

\* C5: an event published once, whose key no other event of the job shares, is
\* yielded at most once to a subscriber.
C5_UniqueKeyAtMostOnce ==
    \A s \in Subscribers : \A e \in Range(pushed) :
        KeyCount(pushed, event_id(e)) = 1 => KeyCount(yielded[s], event_id(e)) <= 1

\* The overlap: an event with a unique key was in the history the subscriber read
\* and was also delivered to it on the live channel; it was yielded once.
C5_Witness ==
    \E e \in Range(pushed) :
        /\ KeyCount(pushed, event_id(e)) = 1
        /\ event_id(e) \in seen_ids["s1"]
        /\ e \in skipped["s1"]
        /\ KeyCount(yielded["s1"], event_id(e)) = 1

IsPrefix(s, t) == Len(s) <= Len(t) /\ SubSeq(t, 1, Len(s)) = s

Statuses(writes) == [i \in DOMAIN writes |-> writes[i].status]

\* C1: the statuses written to a job's record form a prefix of
\* queued -> processing -> (completed | failed), and no write that follows a write
\* of completed or failed changes the record's status, result or error.
C1_MonotonicStatus ==
    \A j \in JobIds :
        /\ \/ IsPrefix(Statuses(jobWrites[j]), <<"queued", "processing", "completed">>)
           \/ IsPrefix(Statuses(jobWrites[j]), <<"queued", "processing", "failed">>)
        /\ \A i, k \in DOMAIN jobWrites[j] :
              (i < k /\ jobWrites[j][i].status \in {"completed", "failed"})
                  => jobWrites[j][k] = jobWrites[j][i]

NoChatOperation ==
    /\ \A h \in Handlers : hPc[h] = "idle"
    /\ \A w \in Workers : wPc[w] \notin {"save_chat", "save_write"}

\* C8: when no chat operation is in progress, the metadata of a chat agrees with
\* its transcript: message_count is the number of messages and
\* last_message_preview the first 100 characters of the last message.
C8_MetadataConsistent ==
    \A c \in ChatIds :
        (NoChatOperation /\ meta[c] # Absent /\ file[c] # Absent) =>
            /\ meta[c].message_count = Len(file[c].messages)
            /\ file[c].messages # <<>> =>
                  meta[c].last_message_preview =
                      Take(file[c].messages[Len(file[c].messages)].content, PREVIEW_LEN)

\* C9: a step that leaves the transcript file in place keeps every message in
\* it, unchanged and at its position.
C9_AppendOnly ==
    [][\A c \in ChatIds :
          (file[c] # Absent /\ file'[c] # Absent)
              => IsPrefix(file[c].messages, file'[c].messages)]_vars

\* C10: the metadata never counts more messages than the transcript file holds.
C10_MetadataNeverLeads ==
    \A c \in ChatIds :
        (meta[c] # Absent /\ file[c] # Absent)
            => meta[c].message_count <= Len(file[c].messages)

\* C11: in every reachable state a chat whose metadata document exists has its
\* transcript file.
C11_FileWheneverMetadata ==
    \A c \in ChatIds : meta[c] # Absent => file[c] # Absent

\* C12: when the metadata insert of create_chat has failed, neither a metadata
\* document nor a transcript file exists for the new chat id.
C12_FailedCreateLeavesNothing ==
    \A h \in Handlers :
        hPc[h] = "create_raised"
            => (meta[hChat[h]] = Absent /\ file[hChat[h]] = Absent)

\* C13: no id is in job_queue without a job record, the record of a queued id is
\* as enqueue wrote it (status queued, created_at equal to updated_at), and the
\* worker that popped an id finds its record.
C13_RecordBeforePush ==
    /\ \A i \in DOMAIN job_queue :
          /\ jobs[job_queue[i]] # Absent
          /\ jobs[job_queue[i]].status = "queued"
          /\ jobs[job_queue[i]].created_at = jobs[job_queue[i]].updated_at
    /\ \A w \in Workers : wPc[w] = "get_job" => jobs[wJob[w]] # Absent

\* A worker has popped the id and is about to load the record while the gateway's
\* handler has not yet gone on to publish.
C13_Witness ==
    \E w \in Workers :
        /\ wPc[w] = "get_job"
        /\ gwPc[wJob[w]] = "publish"
        /\ jobs[wJob[w]] # Absent

\* C14: the status event "Job queued, waiting for worker..." is the first event of
\* every job's history; in particular it precedes the worker's "Processing
\* query..." status.
C14_QueuedEventFirst ==
    \A j \in JobIds :
        eventLog[j] # <<>> => eventLog[j][1] = JobEvent("status", "queued")

\* The positions of the events of a type in the events published for a job.
EventsOf(j, type) == {i \in DOMAIN eventLog[j] : eventLog[j][i].type = type}

\* The positions of the system messages saved for a job in a transcript.
SystemMessagesOf(c, j) ==
    {i \in DOMAIN file[c].messages :
        file[c].messages[i].role = "system" /\ file[c].messages[i].job_id = j}

\* No worker is processing job j.
NotInProcess(j) == \A w \in Workers : wJob[w] = j => wPc[w] = "idle"

\* The runner has returned a result for job j.
RunnerReturned(j) ==
    \/ EventsOf(j, "complete") # {}
    \/ \E w \in Workers : wJob[w] = j /\ wResult[w] # None

\* C15: once the runner has returned normally for a job and the worker is done
\* with it, the record is completed and holds the result, exactly one complete
\* event carries the result, and the transcript of the job's chat, when it
\* exists, holds exactly one system message of the job, with the response text as
\* content and the event history and the job id in its metadata.
C15_SuccessRecorded ==
    \A j \in JobIds :
        (jobs[j] # Absent /\ RunnerReturned(j) /\ NotInProcess(j)) =>
            /\ jobs[j].status = "completed"
            /\ jobs[j].result \in Results
            /\ Cardinality(EventsOf(j, "complete")) = 1
            /\ \A i \in EventsOf(j, "complete") : eventLog[j][i].body = jobs[j].result
            /\ (jobs[j].chat_id # None /\ file[jobs[j].chat_id] # Absent) =>
                  /\ Cardinality(SystemMessagesOf(jobs[j].chat_id, j)) = 1
                  /\ \A i \in SystemMessagesOf(jobs[j].chat_id, j) :
                        /\ file[jobs[j].chat_id].messages[i].content
                              = response_text(jobs[j].result)
                        /\ file[jobs[j].chat_id].messages[i].event_history # <<>>

\* The runner has raised for the job of worker w and process_job has returned.
RunnerRaised(w) == wJob[w] # None /\ wError[w] # None /\ wPc[w] = "idle"

\* The texts a nonzero exit produces hold the tail of the child's output.
HoldsOutput(error, output) ==
    \/ output = ""
    \/ output = "boom" /\ error = "OpenCode failed: boom"

\* C16: after the runner has raised, the job is failed with the text of the
\* exception as error (for a nonzero exit the text holds the child's output),
\* an error event with that text is published, the transcript of the job's chat
\* holds no system message of the job and no step of the except branch changes
\* a transcript, and the worker is back at the queue.
C16_RunnerFailureHandled ==
    /\ [](\A w \in Workers :
            RunnerRaised(w) =>
               /\ jobs[wJob[w]].status = "failed"
               /\ jobs[wJob[w]].error = wError[w]
               /\ \E i \in EventsOf(wJob[w], "error") : eventLog[wJob[w]][i].body = wError[w]
               /\ file[chat_id_of(w)] # Absent => SystemMessagesOf(chat_id_of(w), wJob[w]) = {}
               /\ job_queue # <<>> => ENABLED run_blpop(w))
    /\ [][\A w \in Workers :
            /\ (wPc[w] = "run" /\ wPc'[w] = "failed") =>
                  \/ wError'[w] \in ErrorTexts \cup {CliMissing}
                  \/ \E output \in Outputs : /\ wError'[w] = ExitError(output)
                                              /\ HoldsOutput(wError'[w], output)
            /\ (wPc[w] \in {"failed", "publish_error"} /\ wPc'[w] # wPc[w]) => file' = file]_vars

\* The worker whose runner raised for j1 has gone on to j2.
C16_Witness ==
    \E w \in Workers :
        /\ wJob[w] = "j2" /\ wPc[w] = "run"
        /\ jobs["j1"] # Absent /\ jobs["j1"].status = "failed"
        /\ jobs["j1"].error = ExitError("boom")
        /\ file["c1"] # Absent

\* C17: a worker that has exited on a signal leaves the job it had begun to
\* process completed or failed, with the terminal event of that status published.
C17_ShutdownDrainsJob ==
    \A w \in Workers :
        (/\ wPc[w] = "exited" /\ wJob[w] # None /\ jobs[wJob[w]] # Absent
         /\ jobs[wJob[w]].status # "queued") =>
            \/ jobs[wJob[w]].status = "completed" /\ EventsOf(wJob[w], "complete") # {}
            \/ jobs[wJob[w]].status = "failed" /\ EventsOf(wJob[w], "error") # {}

\* C18: a pass of the parse loop over any line leaves the runner in the loop,
\* and a line that is no JSON object (and is not blank) is published as a status
\* text.
C18_ParseLoopNeverRaises ==
    [][(runPc = "loop" /\ stdout # <<>>) =>
          /\ runPc' = "loop"
          /\ (Head(stdout).len > 0 /\ Head(stdout).json # "object")
                => statusTexts' = Append(statusTexts, Head(stdout))]_vars

\* C20: the chat history a worker loads for a job holds the user message of
\* the query that submitted the job.
C20_HistoryHoldsQuery ==
    [][\A w \in Workers :
          (wPc[w] = "load_history" /\ wPc'[w] = "run") =>
              \E i \in DOMAIN load_chat_history(chat_id_of(w)) :
                  load_chat_history(chat_id_of(w))[i] = UserMessage(QueryOf(wJob[w]))]_vars

\* C19: when a history write of publish (append, trim or expire) has failed, the
\* event has still been sent to every subscriber registered on the channel.
Received(s) == Range(inbox[s]) \cup Range(yielded[s]) \cup skipped[s]

C19_HistoryFailureStillPublishes ==
    \A p \in Publishers : \A s \in Subscribers :
        (pubPc[p] = "raised" /\ Listening(s)) => pubEvent[p] \in Received(s)

\* The positions at which an event was pushed by publish.
PushedAt(e) == {k \in DOMAIN pushed : pushed[k] = e}

\* C21: two different events of one publisher, each published once, are yielded
\* by a subscriber in the order of their publishes.
C21_PublishOrder ==
    \A s \in Subscribers : \A i, j \in DOMAIN yielded[s] :
        (/\ i < j
         /\ yielded[s][i] # yielded[s][j]
         /\ Cardinality(PushedAt(yielded[s][i])) = 1
         /\ Cardinality(PushedAt(yielded[s][j])) = 1)
            => \A k \in PushedAt(yielded[s][i]) : \A l \in PushedAt(yielded[s][j]) : k < l

\* C22: the EXPIRE command of every publish finds the history list and sets its
\* expiry to HISTORY_TTL seconds.
C22_PublishResetsExpiry ==
    [][\A p \in Publishers :
          (pubPc[p] = "expire" /\ pubPc'[p] = "publish")
              => (history' # <<>> /\ ttl' = HISTORY_TTL)]_vars

\* The jobs whose id enqueue_job has pushed.
Pushed(j) == gwPc[j] \in {"publish", "returned"}

C24_CreateResult ==
    \A c \in ChatIds :
        meta[c] # Absent =>
            LET title == request[c].title
                initial_message == request[c].initial_message
            IN  /\ file[c] # Absent
                /\ meta[c].title = file[c].title
                /\ title # NoText => file[c].title = title
                /\ (title = NoText /\ initial_message # NoText
                        /\ Len(initial_message) <= TITLE_LEN)
                      => file[c].title = initial_message
                /\ (title = NoText /\ Len(initial_message) > TITLE_LEN)
                      => /\ Len(file[c].title) = TITLE_LEN + Len(Ellipsis)
                         /\ IsPrefix(SubSeq(file[c].title, 1, TITLE_LEN), initial_message)
                         /\ SubSeq(file[c].title, TITLE_LEN + 1, TITLE_LEN + Len(Ellipsis))
                               = Ellipsis
                /\ (title = NoText /\ initial_message = NoText)
                      => file[c].title = ChatPrefix \o <<c>>
                /\ file[c].messages =
                      (IF initial_message # NoText
                          THEN <<[role |-> "user", content |-> initial_message,
                                  agents_used |-> {}]>>
                          ELSE <<>>)
                /\ meta[c].message_count = Len(file[c].messages)
                /\ meta[c].updated_at = meta[c].created_at
                /\ Len(meta[c].last_message_preview) = Min(PREVIEW_LEN, Len(initial_message))
                /\ IsPrefix(meta[c].last_message_preview, initial_message)
                /\ meta[c].agents_used = {}

\* A chat made without a title from an initial message longer than TITLE_LEN.
C24_Witness ==
    \E c \in ChatIds :
        /\ meta[c] # Absent
        /\ request[c].title = NoText
        /\ Len(request[c].initial_message) > PREVIEW_LEN

Terminal(j) == jobs[j] # Absent /\ jobs[j].status \in {"completed", "failed"}

\* C25: a step of an SSE subscription (open, read of the history, replay, live
\* read, disconnect) changes neither a job record, nor the queue, nor the
\* worker, nor the history list and its expiry, nor anything of another
\* subscriber; and a job that was pushed reaches completed or failed whatever
\* the subscribers do.
C25_SubscriptionFrame ==
    /\ [][\A s \in Subscribers :
             SubscriberStep(s) =>
                 /\ UNCHANGED <<jobVars, history, ttl, pushed, published, lost,
                                pubPc, pubEvent>>
                 /\ \A o \in Subscribers \ {s} :
                       UNCHANGED <<subPc[o], snapshot[o], seen_ids[o], inbox[o],
                                   yielded[o], skipped[o]>>]_vars
    /\ (Pushed("j1") ~> Terminal("j1"))

\* One client has disconnected without an event, the other has received the
\* event of the run, and the job is completed.
C25_Witness ==
    /\ subPc["s1"] = "done" /\ yielded["s1"] = <<>>
    /\ yielded["s2"] # <<>>
    /\ jobs["j1"] # Absent /\ jobs["j1"].status = "completed"

Popped(j) == Pushed(j) /\ j \notin Range(job_queue)

Starts(j) == {i \in DOMAIN jobWrites[j] : jobWrites[j][i].status = "processing"}

\* C26: with two workers, a pop takes an id that was on the queue and had not
\* been popped before; an id once popped is never on the queue again, whatever
\* raises in process_job or in the main loop; no two workers hold the same id;
\* and process_job marks a job as processing at most once.
C26_PoppedAtMostOnce ==
    /\ [][\A w \in Workers :
             (wPc[w] = "idle" /\ wPc'[w] = "get_job")
                 => \E j \in JobIds : j = wJob'[w] /\ ~Popped(j) /\ Popped(j)']_vars
    /\ [][\A j \in JobIds : Popped(j) => Popped(j)']_vars
    /\ [](\A w, v \in Workers :
             (w # v /\ wPc[w] \notin {"idle", "exited"} /\ wPc[v] \notin {"idle", "exited"})
                 => wJob[w] # wJob[v])
    /\ [](\A j \in JobIds : Cardinality(Starts(j)) <= 1)

\* A call of process_job has raised into the main loop: the worker polls again,
\* the job it dropped is in processing and its id is not on the queue.
C26_Witness ==
    /\ faults > 0
    /\ \A w \in Workers : wPc[w] = "idle"
    /\ Popped("j1")
    /\ jobs["j1"].status = "processing"

\* The agents named by the messages of a transcript.
AgentsOf(content) == UNION {content.messages[i].agents_used : i \in DOMAIN content.messages}

\* An append to chat c ends with this step: the gateway's save_chat_content has
\* updated the metadata, or the worker has written the file.
AppendEnds(c) ==
    \/ \E h \in Handlers : hChat[h] = c /\ hPc[h] = "save_meta" /\ hPc'[h] = "appended"
    \/ \E w \in Workers :
          wPc[w] = "save_write" /\ wPc'[w] = "idle" /\ chat_id_of(w) = c /\ file'[c] # file[c]

\* C27: when an append to a chat ends, the agents_used of its metadata is the
\* union of the agents_used of the messages in its transcript.
C27_AgentsUsedUnion ==
    [][\A c \in ChatIds :
          (AppendEnds(c) /\ meta'[c] # Absent /\ file'[c] # Absent)
              => meta'[c].agents_used = AgentsOf(file'[c])]_vars

\* C28: the result process_job keeps from a run is the runner's return value
\* without the key _metadata; the completed record and the complete event hold
\* that same value; and the agents_used and tools_called of _metadata are in
\* the system message the worker appends to the chat.
C28_ResultWithoutMetadata ==
    /\ [][\A w \in Workers :
             (wPc[w] = "run" /\ wPc'[w] = "completed") =>
                 \E r \in Results, m \in Metadatas :
                     /\ wResult'[w] = r
                     /\ wMetadata'[w] = m]_vars
    /\ [][\A w \in Workers :
             (wPc[w] = "publish_complete" /\ wPc'[w] # "publish_complete") =>
                 /\ jobs'[wJob[w]].status = "completed"
                 /\ jobs'[wJob[w]].result = wResult[w]
                 /\ jobs'[wJob[w]].result \in Results
                 /\ eventLog'[wJob[w]][Len(eventLog'[wJob[w]])]
                       = JobEvent("complete", wResult[w])]_vars
    /\ [][\A w \in Workers :
             (wPc[w] = "save_write" /\ wPc'[w] = "idle") =>
                 LET messages == file'[chat_id_of(w)].messages
                 IN  /\ messages[Len(messages)].role = "system"
                     /\ messages[Len(messages)].job_id = wJob[w]
                     /\ messages[Len(messages)].agents_used = wMetadata[w].agents_used
                     /\ messages[Len(messages)].tools_called = wMetadata[w].tools_called]_vars

\* The system message of j1 names the agent and the tool of the run; the record
\* of j1 holds the result without them.
C28_Witness ==
    /\ jobs["j1"] # Absent /\ jobs["j1"].status = "completed" /\ jobs["j1"].result = "r1"
    /\ \E i \in EventsOf("j1", "complete") : eventLog["j1"][i].body = "r1"
    /\ file["c1"] # Absent
    /\ \E i \in SystemMessagesOf("c1", "j1") :
          /\ file["c1"].messages[i].agents_used = {"analyst"}
          /\ file["c1"].messages[i].tools_called = <<"aql">>

\* The last message of a transcript.
LastMessage(content) == content.messages[Len(content.messages)]

\* C29: when the read of the event history raises, the worker goes on to write
\* the system message, with an empty event_history; and whatever raises while
\* the response is saved, the worker never enters the except branch of
\* process_job: the record stays completed and no event is published.
C29_SaveFailuresContained ==
    /\ [][\A w \in Workers :
             (wPc[w] = "save_chat" /\ wPc'[w] = "save_write" /\ faults' > faults) =>
                 /\ LastMessage(csContent'[w]).role = "system"
                 /\ LastMessage(csContent'[w]).job_id = wJob[w]
                 /\ LastMessage(csContent'[w]).event_history = <<>>]_vars
    /\ [][\A w \in Workers :
             (wPc[w] = "save_write" /\ wPc'[w] = "idle" /\ faults' = faults) =>
                 LastMessage(file'[chat_id_of(w)]) = LastMessage(csContent[w])]_vars
    /\ [][\A w \in Workers :
             wPc[w] \in {"save_chat", "save_write"} =>
                 /\ wPc'[w] \in {"save_chat", "save_write", "idle"}
                 /\ jobs[wJob[w]].status = "completed"
                 /\ jobs'[wJob[w]] = jobs[wJob[w]]
                 /\ \A i \in DOMAIN eventLog'[wJob[w]] :
                       eventLog'[wJob[w]][i].type # "error"]_vars

\* The history read has raised and the system message of j1 is in the file with
\* an empty event_history; j1 is completed and has no error event.
C29_Witness ==
    /\ faults > 0
    /\ file["c1"] # Absent
    /\ \E i \in SystemMessagesOf("c1", "j1") : file["c1"].messages[i].event_history = <<>>
    /\ jobs["j1"].status = "completed"
    /\ EventsOf("j1", "error") = {}

\* C30: when the record of a popped id is missing, process_job returns at once:
\* no record is written, no event published, no run started, no chat touched;
\* and the worker pops the next id.
C30_MissingRecordSkipped ==
    /\ [][\A w \in Workers :
             (wPc[w] = "get_job" /\ wPc'[w] # "get_job" /\ jobs[wJob[w]] = Absent) =>
                 /\ wPc'[w] = "idle"
                 /\ UNCHANGED <<jobs, jobWrites, eventLog, job_queue>>
                 /\ UNCHANGED <<busVars, chatVars, runnerVars>>]_vars
    /\ [](\A w \in Workers :
             (wPc[w] = "idle" /\ job_queue # <<>>) => ENABLED run_blpop(w))
    /\ [](\A j \in JobIds :
             (jobs[j] = Absent /\ Popped(j)) =>
                 /\ Len(jobWrites[j]) = 1
                 /\ \A i \in DOMAIN eventLog[j] : eventLog[j][i] = JobEvent("status", "queued"))

\* A worker has popped j1, whose record was lost, and has gone on to run j2.
C30_Witness ==
    \E w \in Workers :
        /\ wJob[w] = "j2" /\ wPc[w] = "run"
        /\ \A v \in Workers \ {w} : wJob[v] = None
        /\ jobs["j1"] = Absent /\ Popped("j1")

\* C2: when the publishes of the job have all returned, none of them terminal, and
\* the history has lost nothing, the subscriber that registered before the first
\* publish and the one that subscribed after the last have yielded the same
\* multiset of events, compared by (type, timestamp).
C2_ReplayCorrectness ==
    (/\ CaughtUp("s1") /\ CaughtUp("s2")
     /\ NoPublishInFlight
     /\ lost = {}
     /\ \A e \in Range(pushed) : ~IsTerminal(e))
    => \A e \in Range(pushed) :
          KeyCount(yielded["s1"], event_id(e)) = KeyCount(yielded["s2"], event_id(e))

\* C6: the history list never holds more than MAX_HISTORY entries.
C6_BoundedHistory == Len(history) <= MAX_HISTORY

\* C7: once a complete or error event has been published, a subscribe call ends:
\* no subscriber is left waiting with nothing to read; the terminal event is the
\* last event a subscriber yields.
C7_SubscribeTerminates ==
    \A s \in Subscribers :
        /\ (\E e \in Range(published) : IsTerminal(e)) => ~CaughtUp(s)
        /\ \A i \in DOMAIN yielded[s] :
              IsTerminal(yielded[s][i]) => (i = Len(yielded[s]) /\ subPc[s] = "done")

\* The lines that bear a result: a text or message event with a text, a result
\* event, a line that is no JSON and longer than RESPONSE_LEN.
ResultBearing(line) ==
    \/ line.json = "object" /\ line.type = "result"
    \/ line.json = "object" /\ line.type \in {"text", "message"} /\ line.text = "text"
    \/ line.json = "invalid" /\ line.len > RESPONSE_LEN

LastBearing(lines) ==
    LET at == {i \in DOMAIN lines : ResultBearing(lines[i])}
    IN  IF at = {} THEN 0 ELSE CHOOSE k \in at : \A i \in at : i <= k

\* C31: when the child has exited cleanly after writing some output, the run
\* has returned, and its result is what the last result-bearing line of the
\* output gives, or all output lines joined when no line bears a result.
C31_ResponseByLastLine ==
    (returncode = 0 /\ runPc \in {"returned", "raised"} /\ all_output # <<>>) =>
        /\ runPc = "returned"
        /\ LET k == LastBearing(all_output)
           IN  final_result =
                   IF k = 0 THEN Joined(all_output)
                   ELSE IF all_output[k].type = "result" THEN ResultOf(all_output[k])
                   ELSE ResponseOf(all_output[k])

\* C32: when a text holding a <tool_trace> section already ingested in this
\* run is ingested again, tools_called does not change and no tool event is
\* published (the enclosing task event may still publish its agent switch).
C32_TraceIngestedOnce ==
    [][\A output \in ToolOutputs :
          (/\ ingested' = Append(ingested, output)
           /\ output.kind = "trace"
           /\ \E i \in DOMAIN ingested : ingested[i] = output)
              => /\ tools_called' = tools_called
                 /\ \/ runEvents' = runEvents
                    \/ \E s \in Subagents : runEvents' = Append(runEvents, AgentSwitch(s))]_vars

\* A trace that lists tools has been ingested twice and its tools are recorded
\* once.
C32_Witness ==
    \E output \in ToolOutputs :
        /\ output.kind = "trace" /\ output.trace.tools # <<>>
        /\ ingested = <<output, output>>
        /\ tools_called = trace_records(output.trace.tools)
        /\ ~live_mcp_events
        /\ runEvents = trace_events(output.trace.tools, FALSE)

\* C33: a tool_use event of the tool "task" publishes an agent_switch for its
\* sub-agent and no tool_call; a tool_use event of any other tool publishes
\* one tool_call (server arangodb iff the name contains "arango"), records it,
\* then aql_query iff the name indicates AQL, then tool_result iff the tool's
\* status is completed.
C33_ToolUseEvents ==
    [][\A event \in HandledEvents :
          /\ handle_task(event) =>
                /\ event.subagent # "" =>
                      /\ Len(runEvents') > Len(runEvents)
                      /\ SubSeq(runEvents', 1, Len(runEvents) + 1)
                            = Append(runEvents, AgentSwitch(event.subagent))
                /\ \A i \in DOMAIN runEvents' :
                      ~(runEvents'[i].type = "tool_call" /\ runEvents'[i].tool = TaskTool)
                /\ \A i \in DOMAIN tools_called' : tools_called'[i].tool # TaskTool
          /\ handle_tool_use(event) =>
                /\ runEvents' =
                      runEvents
                          \o <<ToolCall(event.tool,
                                        IF contains(lower(event.tool), Arango)
                                           THEN "arangodb" ELSE "mcp")>>
                          \o (IF contains(lower(event.tool), Aql)
                                 THEN <<AqlQuery(event.tool)>> ELSE <<>>)
                          \o (IF event.status = "completed"
                                 THEN <<ToolResult(event.tool)>> ELSE <<>>)
                /\ tools_called' =
                      Append(tools_called,
                             ToolRecord(event.tool,
                                        IF contains(lower(event.tool), Arango)
                                           THEN "arangodb" ELSE "mcp"))]_vars

\* No event among the last MAX_HISTORY pushed has left the history: the list
\* has not been absent since they were pushed.
NotExpired == \A e \in lost : \A k \in PushedAt(e) : k <= Len(pushed) - MAX_HISTORY

\* The last n entries of a list (all of them when it holds fewer).
LastOf(list, n) == SubSeq(list, IF Len(list) > n THEN Len(list) - n + 1 ELSE 1, Len(list))

\* C34: when a publish completes, the history holds at most MAX_HISTORY events,
\* they are the most recent events pushed, in the order of their pushes, and
\* unless the list has been absent they are the most recent
\* min(n, MAX_HISTORY) of the n events pushed.
C34_HistoryHoldsMostRecent ==
    [][\A p \in Publishers :
          (pubPc[p] = "publish" /\ pubPc'[p] # "publish") =>
              /\ Len(history') <= MAX_HISTORY
              /\ history' = LastOf(pushed', Len(history'))
              /\ NotExpired' => history' = LastOf(pushed', MAX_HISTORY)]_vars

\* The message parts of a prompt, in order.
MessageParts(parts) == SelectSeq(parts, LAMBDA part : part.part = "message")

\* The position of the query part of a prompt (0 when it has none).
QueryAt(parts) ==
    IF \E i \in DOMAIN parts : parts[i].part = "query"
       THEN CHOOSE i \in DOMAIN parts : parts[i].part = "query"
       ELSE 0

ChatEndpoints == {"get_chat", "update_chat", "delete_chat_endpoint", "submit_chat_query"}
JobEndpoints == {"get_job_status", "stream_events"}

AllResponses ==
    {Response(endpoint, id, status_code) :
        endpoint \in ChatEndpoints \cup JobEndpoints, id \in ChatIds \cup JobIds,
        status_code \in {200, 400, 404}}

\* The thing a response is about does not exist.
Missing(r) ==
    \/ r.endpoint \in ChatEndpoints /\ meta[r.id] = Absent
    \/ r.endpoint \in JobEndpoints /\ jobs[r.id] = Absent

\* C36: a request for a job or chat that does not exist is answered with 404
\* (an update without a title with 400), and the step that answers so changes
\* no job record, no queue, no event, no chat metadata and no transcript; no
\* handler takes up an update, a deletion or a query of a chat that does not
\* exist.
C36_NotFoundChangesNothing ==
    /\ [][\A r \in AllResponses :
            responses' = Append(responses, r) =>
                /\ Missing(r) => r.status_code \in {400, 404}
                /\ (Missing(r) /\ r.status_code = 400) => r.endpoint = "update_chat"
                /\ r.status_code \in {400, 404} =>
                      /\ jobs' = jobs /\ job_queue' = job_queue /\ eventLog' = eventLog
                      /\ history' = history /\ published' = published
                      /\ meta' = meta /\ file' = file]_vars
    /\ [][\A h \in Handlers :
            (hPc[h] = "idle" /\ hPc'[h] \in {"add_message", "title_read", "delete_doc"})
                => meta[hChat'[h]] # Absent]_vars

\* A chat was created and deleted, its transcript is gone, and a request that
\* named it afterwards was answered with 404.
C36_Witness ==
    /\ Len(responses) = 1
    /\ responses[1].endpoint \in ChatEndpoints
    /\ responses[1].status_code = 404
    /\ created[responses[1].id]
    /\ meta[responses[1].id] = Absent

\* C37: while a complete event is among the events published for a job, the
\* status of the job is completed; while an error event is, the status is
\* failed: the terminal status is written before the terminal event, and no
\* complete or error event is published for a job still queued or processing.
C37_TerminalEventAfterStatus ==
    \A j \in JobIds : \A i \in DOMAIN eventLog[j] :
        /\ eventLog[j][i].type = "complete"
              => (jobs[j] # Absent /\ jobs[j].status = "completed")
        /\ eventLog[j][i].type = "error"
              => (jobs[j] # Absent /\ jobs[j].status = "failed")

\* C38: among the events published for a job at most one is a complete or
\* error event, and it is the last one: nothing is published after it.
C38_OneTerminalEventLast ==
    \A j \in JobIds : \A i \in DOMAIN eventLog[j] :
        eventLog[j][i].type \in TerminalTypes => i = Len(eventLog[j])

\* C39: when delete_chat returns for a chat, the chat has neither a metadata
\* document nor a transcript file, and a chat that was created and has
\* neither, with no creation under way, gets neither again.
C39_DeletedStaysDeleted ==
    [][\A c \in ChatIds :
          /\ (\E h \in Handlers :
                  hPc[h] = "delete_doc" /\ hChat[h] = c /\ hPc'[h] = "idle")
                => (meta'[c] = Absent /\ file'[c] = Absent)
          /\ (/\ created[c] /\ meta[c] = Absent /\ file[c] = Absent
              /\ \A h \in Handlers : ~(hPc[h] = "create_insert" /\ hChat[h] = c))
                => (meta'[c] = Absent /\ file'[c] = Absent)]_vars

\* The job has a complete or error event among its published events.
HasTerminalEvent(j) == \E i \in DOMAIN eventLog[j] : eventLog[j][i].type \in TerminalTypes

\* C40: with running workers, children that end and calls that succeed, every
\* job whose id was pushed on the queue eventually has status completed or
\* failed and a complete or error event published.
C40_EveryJobTerminates ==
    \A j \in JobIds : Pushed(j) ~> (Terminal(j) /\ HasTerminalEvent(j))

\* Both jobs were pushed and have reached a terminal status, each with its
\* terminal event, one completed and one failed.
C40_Witness ==
    /\ \A j \in JobIds : Pushed(j) /\ Terminal(j) /\ HasTerminalEvent(j)
    /\ jobs["j1"].status = "completed"
    /\ jobs["j2"].status = "failed"

====
